---- MODULE Spec2Model ----
(***************************************************************************)
(* A model of the go-car library: CAR v1 section codec, the selective      *)
(* (traversal) writer with its teeing / counting link systems and the      *)
(* resumable traversal, the write-only and the read-only blockstore, the   *)
(* block reader, the v1 package's reader, the CARv1 and CARv2 headers, the *)
(* CarOffsetWriter, the DeferredCarWriter and the pipe-backed              *)
(* reader-seekers.                                                         *)
(*                                                                         *)
(* Bytes are naturals 0..255, byte strings are sequences.  Every component *)
(* has its own specification (SpecXxx); the variables of the components a  *)
(* specification does not exercise keep their initial value.               *)
(***************************************************************************)
EXTENDS Integers, Sequences, FiniteSets, TLC

VARIABLES
    \* ---- selective writer (v2/selective.go, v2/internal/loader) ----
    dag,        \* the link system's content: block id -> sequence of linked block ids
    opts,       \* car.Options of the traversalCar
    tc,         \* traversalCar: [size]
    call,       \* the running WriteV1 call: [pc, skip, v1Size, written, ret, err]
    iw,         \* loader.indexingWriter: [size, toSkip, rcrds]
    w,          \* bytes received by the io.Writer handed to WriteV1
    ts,         \* traversal.traversalState (the resumer)
    progress,   \* ipld traversal.Progress: [SeenLinks]
    todo,       \* the walk's position: links still to be reached, depth first
    loads,      \* blocks handed to the traversal engine by the link system, in order,
                \* each with its path and the counter after it
    full,       \* output of the completed WriteV1(skip = 0) of this traversal
    lsys        \* the loader package in use and the way the storage delivers a block:
                \* [teeing, counting, chunk, eofWithData]

VARIABLES
    \* ---- write-only blockstore and block reader (v2/blockstore/writeonly.go,
    \*      v3 block reader) ----
    wo,         \* blockstore.WriteOnly: [opts, blocks, err]
    car,        \* the bytes of the CAR: the blockstore's io.Writer, the reader's input
    puts,       \* the blocks handed to Put / PutMany, in order
    wrote,      \* the blocks PutMany wrote a section for, in order
    br,         \* blockReader: [state, version, roots, pos, offset, readerSize, opts, seeker,
                \* limit]; limit is the end of the io.LimitReader in br.r, -1 without one
    ret,        \* what the last reader call returned: [op, at, cid, data, meta, err, alloc]
    got         \* the blocks Next returned, in order

VARIABLES
    \* ---- CarOffsetWriter (part_004) ----
    cow,        \* CarOffsetWriter: [nodeGetter, blockInfos]
    wcall       \* the last Write: [n, offset, out, err]; n counts the calls

VARIABLES
    \* ---- pipe-backed reader-seekers (v2/car_reader_seeker.go,
    \*      v2/internal/io/skip_writer_read_seeker.go) ----
    rs,         \* the reader-seeker: [kind, offset, size, reader]
    gor,        \* the writer goroutine of the last Read that started one
    usr         \* the caller: its position in Read or Seek and what it has observed

VARIABLES
    \* ---- concurrent callers of one object (sync.RWMutex, sync.Mutex) ----
    mu,         \* the object's lock: [w, r], the thread that holds it for writing (0 if
                \* none) and the threads that hold it for reading
    thr,        \* the call each thread is in: its position and its locals
    obs         \* what the calls that have returned so far have reported

VARIABLES
    \* ---- DeferredCarWriter (part_008) ----
    dcw,        \* DeferredCarWriter: [roots, outPath, f, w, putCb, opts]
    sink,       \* the output, a file at outPath or the stream: [exists, bytes]
    log         \* the callbacks called and the Puts made, in order

VARIABLES
    \* ---- CARv2 header (V2Header; v2 Header) ----
    hdr,        \* the header the chain of calls has produced so far; for Matches the
                \* two V1Headers [one, other]
    hcall       \* the last call: [n, op, p, on, after, err]; on is the header it was
                \* called on, after is that header when the call has returned

VARIABLES
    \* ---- AllKeysChan of the read-only blockstore (v2/blockstore/ro_blockstore.go) ----
    backing,    \* b.backing: the bytes of the CARv1 payload
    keysCh,     \* the channel AllKeysChan returns: [made, buf, closed]
    ctxDone,    \* whether the caller's context has been cancelled
    scanner,    \* the goroutine AllKeysChan starts: [state, offset, c]
    ranged      \* the consumer: [keys, ended], the keys it has received from the channel
                \* and whether its range over the channel has ended

selVars == <<dag, opts, tc, call, iw, w, ts, progress, todo, loads, full, lsys>>
bsVars == <<wo, car, puts, wrote, br, ret, got>>
cowVars == <<cow, wcall>>
rsVars == <<rs, gor, usr>>
thVars == <<mu, thr, obs>>
dcwVars == <<dcw, sink, log>>
hdrVars == <<hdr, hcall>>
roVars == <<backing, keysCh, ctxDone, scanner, ranged>>

vars == <<selVars, bsVars, cowVars, rsVars, thVars, dcwVars, hdrVars, roVars>>

\* the variables the specifications of one component leave alone
notSel == <<bsVars, cowVars, rsVars, thVars, dcwVars, hdrVars, roVars>>
notBs == <<selVars, cowVars, rsVars, thVars, dcwVars, hdrVars, roVars>>
notCow == <<selVars, bsVars, rsVars, thVars, dcwVars, hdrVars, roVars>>
notRs == <<selVars, bsVars, cowVars, thVars, dcwVars, hdrVars, roVars>>
notBsTh == <<selVars, cowVars, rsVars, dcwVars, hdrVars, roVars>>
notDcw == <<selVars, bsVars, cowVars, rsVars, thVars, hdrVars, roVars>>
notDcwTh == <<selVars, bsVars, cowVars, rsVars, hdrVars, roVars>>
notHdr == <<selVars, bsVars, cowVars, rsVars, thVars, dcwVars, roVars>>
notRo == <<selVars, bsVars, cowVars, rsVars, thVars, dcwVars, hdrVars>>

\* a component no specification step touches
SelOff ==
    /\ dag = <<>> /\ opts = <<>> /\ tc = <<>> /\ call = <<>> /\ iw = <<>> /\ w = <<>>
    /\ ts = <<>> /\ progress = <<>> /\ todo = <<>> /\ loads = <<>> /\ full = <<>>
    /\ lsys = <<>>

BsOff ==
    /\ wo = <<>> /\ car = <<>> /\ puts = <<>> /\ wrote = <<>> /\ br = <<>> /\ ret = <<>>
    /\ got = <<>>

CowOff == cow = <<>> /\ wcall = <<>>

RsOff == rs = <<>> /\ gor = <<>> /\ usr = <<>>

ThOff == mu = <<>> /\ thr = <<>> /\ obs = <<>>

DcwOff == dcw = <<>> /\ sink = <<>> /\ log = <<>>

HdrOff == hdr = <<>> /\ hcall = <<>>

RoOff ==
    /\ backing = <<>> /\ keysCh = <<>> /\ ctxDone = <<>> /\ scanner = <<>> /\ ranged = <<>>

SelDormant == BsOff /\ CowOff /\ RsOff /\ ThOff /\ DcwOff /\ HdrOff /\ RoOff
BsDormant == SelOff /\ CowOff /\ RsOff /\ ThOff /\ DcwOff /\ HdrOff /\ RoOff
CowDormant == SelOff /\ BsOff /\ RsOff /\ ThOff /\ DcwOff /\ HdrOff /\ RoOff
RsDormant == SelOff /\ BsOff /\ CowOff /\ ThOff /\ DcwOff /\ HdrOff /\ RoOff
BsThDormant == SelOff /\ CowOff /\ RsOff /\ DcwOff /\ HdrOff /\ RoOff
DcwDormant == SelOff /\ BsOff /\ CowOff /\ RsOff /\ ThOff /\ HdrOff /\ RoOff
DcwThDormant == SelOff /\ BsOff /\ CowOff /\ RsOff /\ HdrOff /\ RoOff
HdrDormant == SelOff /\ BsOff /\ CowOff /\ RsOff /\ ThOff /\ DcwOff /\ RoOff
RoDormant == SelOff /\ BsOff /\ CowOff /\ RsOff /\ ThOff /\ DcwOff /\ HdrOff

-----------------------------------------------------------------------------
(* Bounds of the model *)

MaxBlocks == 3      \* blocks of a DAG
MaxLinks == 2       \* links per block
Chunk == 100        \* bytes a storage reader hands over per Read when it reads in pieces
BigLen == 124       \* payload length of the block whose section needs a 2-byte varint

-----------------------------------------------------------------------------
(* Byte-level helpers *)

Min(a, b) == IF a < b THEN a ELSE b

\* s[from+1 ..], as Go's s[from:]
Drop(s, from) == SubSeq(s, from + 1, Len(s))

RECURSIVE ToUvarint(_)
\* varint.ToUvarint: little-endian base-128, high bit set on all but the last byte
ToUvarint(n) ==
    IF n < 128 THEN <<n>> ELSE <<(n % 128) + 128>> \o ToUvarint(n \div 128)

UvarintSize(n) == Len(ToUvarint(n))

\* util.LdWrite(w, d1, d2): varint(len(d1)+len(d2)) || d1 || d2
LdWrite(d1, d2) == ToUvarint(Len(d1) + Len(d2)) \o d1 \o d2

\* util.LdSize(d1, d2)
LdSize(d1, d2) == Len(d1) + Len(d2) + UvarintSize(Len(d1) + Len(d2))

-----------------------------------------------------------------------------
(* The link system's content.  Block i links only to higher-numbered       *)
(* blocks (a Merkle DAG is acyclic); the same block may be linked several  *)
(* times.  The root node is a map, the other nodes are lists: the link at   *)
(* index j of a list reached at path p has the path p with the segment j   *)
(* added, the j-th link of the root has the path of the j-th key.  A       *)
(* segment is the string of its bytes.                                     *)

Blocks == 1..MaxBlocks

RECURSIVE SeqsUpTo(_, _)
SeqsUpTo(S, n) ==
    IF n = 0 THEN {<<>>}
    ELSE SeqsUpTo(S, n - 1) \cup
         {Append(s, x) : s \in {t \in SeqsUpTo(S, n - 1) : Len(t) = n - 1}, x \in S}

DAGs == {d \in [Blocks -> SeqsUpTo(Blocks, MaxLinks)] :
            \A i \in Blocks : \A j \in 1..Len(d[i]) : d[i][j] > i}

\* cid.Cid.Bytes() of block i: version 1, codec dag-cbor, sha2-256, digest length, digest
CidBytes(i) == <<1, 113, 18, 1, i>>

\* payload of block i: block 2 is the long one
RawData(i) ==
    [j \in 1..(IF i = 2 THEN BigLen ELSE i - 1) |-> (16 * i + j) % 256]

RECURSIVE Flatten(_)
Flatten(ss) == IF ss = <<>> THEN <<>> ELSE Head(ss) \o Flatten(Tail(ss))

\* the dag-cbor form of a CarHeader{Roots, Version}: a map of two entries, the
\* array of root CIDs and the version
headerBytes(roots, version) == <<162, 128 + Len(roots)>> \o Flatten(roots) \o <<version>>

\* carv1.WriteHeader(&CarHeader{Roots: {root}, Version: 1})
HeaderBytes(root) == LdWrite(headerBytes(<<CidBytes(root)>>, 1), <<>>)

\* carv1.HeaderSize
HeaderSize(root) == LdSize(headerBytes(<<CidBytes(root)>>, 1), <<>>)

Root == 1

-----------------------------------------------------------------------------
(* Path tree of the resumable traversal (v2/traversal/resumption.go).      *)
(* A pathState node is identified by its path from the root; the tree is   *)
(* the function path -> [link, offset] over the paths it holds.  Link 0 is *)
(* the nil link.                                                           *)

IsPrefix(p, q) == Len(p) <= Len(q) /\ SubSeq(q, 1, Len(p)) = p

\* NewPathState()
NewPathState == (<<>> :> [link |-> 0, offset |-> 0])

\* pathState.addPathRecursive: every missing node along p is created with this
\* link and offset; existing nodes are left alone
addPathRecursive(tree, p, link, atOffset) ==
    LET missing == {SubSeq(p, 1, n) : n \in 1..Len(p)} \ DOMAIN tree
    IN  [q \in DOMAIN tree \cup missing |->
            IF q \in DOMAIN tree THEN tree[q] ELSE [link |-> link, offset |-> atOffset]]

\* pathState.AddPath
AddPath(tree, p, link, atOffset) ==
    IF Len(p) = 0
    THEN [tree EXCEPT ![<<>>] = [link |-> link, offset |-> atOffset]]
    ELSE addPathRecursive(tree, p, link, atOffset)

\* children of the node at path p
Children(tree, p) == {q \in DOMAIN tree : Len(q) = Len(p) + 1 /\ IsPrefix(p, q)}

\* pathState.allLinks of the node at path p, as a set
allLinks(tree, p) ==
    IF Children(tree, p) = {} THEN {tree[p].link}
    ELSE {tree[q].link : q \in {r \in DOMAIN tree : IsPrefix(p, r)}} \ {0}

\* pathState.GetLinks, as a set
GetLinks(tree, root) ==
    IF Len(root) = 0
    THEN (IF tree[<<>>].link # 0 THEN {tree[<<>>].link} ELSE {})
    ELSE IF root \in DOMAIN tree THEN allLinks(tree, root) ELSE {}

\* errInvalid
Invalid == -1

RECURSIVE offsetAfterAt(_, _, _)
\* pathState.GetOffsetAfter called on the node at path `at` with the remaining
\* segments `segs`
offsetAfterAt(tree, at, segs) ==
    IF Len(segs) = 0 THEN Invalid
    ELSE LET chld == Append(at, segs[1]) IN
         IF chld \notin DOMAIN tree THEN Invalid
         ELSE LET closest == tree[chld].offset
                  co == IF Len(segs) > 1 THEN offsetAfterAt(tree, chld, Tail(segs))
                        ELSE Invalid
                  later == {tree[v].offset : v \in {c \in Children(tree, at) :
                                                       tree[c].offset > closest}}
              IN  IF co # Invalid THEN co
                  ELSE IF later # {}
                       THEN CHOOSE n \in later : \A m \in later : n <= m
                       ELSE Invalid

\* pathState.GetOffsetAfter
GetOffsetAfter(tree, root) == offsetAfterAt(tree, <<>>, root)

-----------------------------------------------------------------------------
(* Link-system facades *)

\* the two revisions of each facade
WritingLoader == "writing_loader.go"
Part009 == "part_009"
CountingLoader == "counting_loader.go"
Part010 == "part_010"

RECURSIVE countingReaderRead(_, _, _, _)
\* countingReader.Read of part_010, called until the wrapped reader reports EOF:
\* every read adds the bytes it returned; the read that carries EOF adds the CID
\* length and the length of the varint of what that read returned plus the CID.
\* The wrapped reader returns at most rdr.chunk bytes per read and reports EOF
\* with the last bytes (rdr.eofWithData) or on the read after them.
countingReaderRead(totalRead, remaining, cidLen, rdr) ==
    LET n == Min(rdr.chunk, remaining)
        eof == IF rdr.eofWithData THEN remaining - n = 0 ELSE remaining = 0
    IN  IF eof THEN totalRead + n + cidLen + UvarintSize(n + cidLen)
        ELSE countingReaderRead(totalRead + n, remaining - n, cidLen, rdr)

\* loader.CountingLinkSystem's StorageReadOpener followed by the reads of the
\* decoder.  counting_loader.go: the varint and CID lengths are added on open,
\* the payload bytes as they are read from the buffer.
CountingOpen(rdr, totalRead, l) ==
    IF rdr.counting = CountingLoader
    THEN totalRead + UvarintSize(Len(RawData(l)) + Len(CidBytes(l)))
                   + Len(CidBytes(l)) + Len(RawData(l))
    ELSE countingReaderRead(totalRead, Len(RawData(l)), Len(CidBytes(l)), rdr)

\* writingReader.Read with the skip count left untouched after a partial skip
writingReaderReadKeepSkip(wr, out, l) ==
    LET writeBuf == LdWrite(CidBytes(l), RawData(l))
        size == Len(writeBuf)
        toWrite == IF wr.toSkip > 0
                   THEN (IF wr.toSkip >= size THEN <<>> ELSE Drop(writeBuf, wr.toSkip))
                   ELSE writeBuf
        toSkip == IF wr.toSkip > 0
                  THEN (IF wr.toSkip >= size THEN wr.toSkip - size ELSE wr.toSkip)
                  ELSE wr.toSkip
    IN  [iw |-> [size |-> wr.size + size,
                 toSkip |-> toSkip,
                 rcrds |-> (l :> wr.size) @@ wr.rcrds],
         w |-> out \o toWrite]

\* writingReader.Read, first call on a block not yet recorded: builds the section,
\* drops what is still to be skipped, writes the rest, records and counts the block
writingReaderRead(wr, out, l) ==
    LET writeBuf == LdWrite(CidBytes(l), RawData(l))
        size == Len(writeBuf)
        toWrite == IF wr.toSkip > 0
                   THEN (IF wr.toSkip >= size THEN <<>> ELSE Drop(writeBuf, wr.toSkip))
                   ELSE writeBuf
        toSkip == IF wr.toSkip > 0
                  THEN (IF wr.toSkip >= size THEN wr.toSkip - size ELSE 0)
                  ELSE wr.toSkip
    IN  [iw |-> [size |-> wr.size + size,
                 toSkip |-> toSkip,
                 rcrds |-> (l :> wr.size) @@ wr.rcrds],
         w |-> out \o toWrite]

\* writingReader.Read of part_009: the skip count and the size are updated on
\* every load, the write and the record only if the block is not recorded yet
writingReaderRead009(wr, out, l) ==
    LET r == writingReaderRead(wr, out, l)
    IN  IF l \in DOMAIN wr.rcrds
        THEN [iw |-> [r.iw EXCEPT !.rcrds = wr.rcrds], w |-> out]
        ELSE r

\* TeeingLinkSystem's StorageReadOpener and the read of the block that follows.
\* writing_loader.go: a block already recorded in this session is passed through
\* unwritten.  part_009: every block gets a writingReader.
TeeingOpen(rev, wr, out, l) ==
    IF rev = WritingLoader
    THEN (IF l \in DOMAIN wr.rcrds THEN [iw |-> wr, w |-> out]
          ELSE writingReaderRead(wr, out, l))
    ELSE writingReaderRead009(wr, out, l)

-----------------------------------------------------------------------------
(* traversalState.traverse: the resumer's StorageReadOpener.  Returns the   *)
(* new traversalState, the new SeenLinks and whether the wrapped link       *)
(* system is opened (otherwise traversal.SkipMe is returned).               *)

NoPath == [set |-> FALSE, path |-> <<>>]

\* the keys of the root map, in the order the walk meets them: "0/0" and "0"
RootKeys == <<<<48, 47, 48>>, <<48>>>>

\* the path segment of the j-th link of block l: a key of the root map or the
\* decimal index in a list
Segment(l, j) == IF l = Root THEN RootKeys[j] ELSE <<48 + j - 1>>

RECURSIVE PathString(_)
\* datamodel.Path.String(): the segments joined by "/"
PathString(path) ==
    IF path = <<>> THEN <<>>
    ELSE IF Len(path) = 1 THEN path[1]
    ELSE path[1] \o <<47>> \o PathString(Tail(path))

\* first index at which the link path leaves the target path, 0 if none
Divergence(seg, target) ==
    LET idx == {i \in 1..Min(Len(seg), Len(target)) : seg[i] # target[i]}
    IN  IF idx = {} THEN 0 ELSE CHOOSE i \in idx : \A j \in idx : i <= j

OffsetOrPending(t, p) ==
    IF GetOffsetAfter(t.pathTree, p) = Invalid THEN t.pendingBlockStart
    ELSE GetOffsetAfter(t.pathTree, p)

traverse(t, seen, path, l) ==
    IF ~t.rewindPathTarget.set /\ t.rewindOffsetTarget = 0
    THEN [ts |-> [t EXCEPT !.pathTree = AddPath(@, path, l, t.lsCounter)],
          seen |-> seen, open |-> TRUE]
    ELSE IF t.rewindPathTarget.set /\ PathString(path) = PathString(t.rewindPathTarget.path)
    THEN [ts |-> [t EXCEPT !.rewindPathTarget = NoPath], seen |-> seen, open |-> TRUE]
    ELSE IF t.rewindOffsetTarget # 0 /\ t.lsCounter >= t.rewindOffsetTarget
    THEN [ts |-> [t EXCEPT !.rewindOffsetTarget = 0], seen |-> seen, open |-> TRUE]
    ELSE IF t.rewindPathTarget.set /\ Divergence(path, t.rewindPathTarget.path) # 0
    THEN LET p == SubSeq(path, 1, Divergence(path, t.rewindPathTarget.path))
         IN  [ts |-> [t EXCEPT !.lsCounter = OffsetOrPending(t, p)],
              seen |-> seen \cup GetLinks(t.pathTree, p), open |-> FALSE]
    ELSE IF t.rewindOffsetTarget # 0
    THEN IF GetLinks(t.pathTree, path) = {}
         THEN [ts |-> [t EXCEPT !.pathTree = AddPath(@, path, l, t.lsCounter)],
               seen |-> seen, open |-> TRUE]
         ELSE [ts |-> [t EXCEPT !.lsCounter = OffsetOrPending(t, path)],
               seen |-> seen \cup GetLinks(t.pathTree, path),
               open |-> ~(t.rewindOffsetTarget >= OffsetOrPending(t, path))]
    ELSE [ts |-> t, seen |-> seen, open |-> TRUE]

\* WithTraversingLinksystem
NewTraversalState(pathState) ==
    [lsCounter |-> 0, pathTree |-> pathState, rewindPathTarget |-> NoPath,
     rewindOffsetTarget |-> 0, pendingBlockStart |-> 0]

-----------------------------------------------------------------------------------------------------------------------------------------------------
(* Selective writer (v2/selective.go): NewSelectiveWriter's sizing pass and *)
(* traversalCar.WriteV1.  The walk of the traversal engine is a depth-first *)
(* visit of the links; each link it reaches is one call of the link         *)
(* system's StorageReadOpener.                                              *)

\* the links of block l, reached at path p, in the order the engine meets them
ChildLinks(d, p, l) ==
    [j \in 1..Len(d[l]) |-> [path |-> Append(p, Segment(l, j)), l |-> d[l][j]]]

\* no call running; tee tells whether the running call tees (WriteV1) or only
\* counts (NewSelectiveWriter)
Idle == [pc |-> "idle", tee |-> FALSE, skip |-> 0, v1Size |-> 0, written |-> 0,
         ret |-> 0, err |-> "nil"]

NoFull == [set |-> FALSE, bytes |-> <<>>]

NoWriter == [size |-> 0, toSkip |-> 0, rcrds |-> <<>>]

\* the released loader package, a storage that hands a block over in one read
Released == [teeing |-> WritingLoader, counting |-> CountingLoader,
             chunk |-> 2 * BigLen, eofWithData |-> FALSE]

\* a traversalCar built by TraverseV1 / NewSelectiveV1Reader for some DAG and options
SelStart(pc) ==
    /\ dag \in DAGs
    /\ tc = [size |-> opts.DataPayloadSize]
    /\ call = [Idle EXCEPT !.pc = pc]
    /\ iw = NoWriter
    /\ w = <<>>
    /\ ts = NewTraversalState(NewPathState)
    /\ progress = [SeenLinks |-> {}]
    /\ todo = <<>>
    /\ loads = <<>>
    /\ full = NoFull

SelInit ==
    /\ opts \in [BlockstoreAllowDuplicatePuts : BOOLEAN, DataPayloadSize : {0}]
    /\ lsys = Released
    /\ SelStart("idle")
    /\ SelDormant

\* the part of the v1 header WriteV1 writes when asked to skip `skip` bytes
HeaderWrite(skip) == IF skip < HeaderSize(Root) THEN Drop(HeaderBytes(Root), skip) ELSE <<>>

\* traversalCar.setup: a new Progress and a new resumer
setup ==
    /\ ts' = NewTraversalState(NewPathState)
    /\ progress' = [SeenLinks |-> {}]
    /\ todo' = <<>>
    /\ loads' = <<>>

\* WriteV1 up to the start of the traversal: header (less the skipped bytes),
\* TeeingLinkSystem and setup.  A call that skips follows a full one; every call
\* starts from the same traversalCar state whatever the calls before it skipped.
WriteV1Start(skip) ==
    /\ call.pc \in {"idle", "done"}
    /\ (skip # 0 => full.set /\ call.skip = 0)
    /\ LET v1Size == HeaderSize(Root)
           written == IF skip < v1Size THEN v1Size - skip ELSE 0
           rest == IF skip < v1Size THEN 0 ELSE skip - v1Size
       IN  /\ w' = HeaderWrite(skip)
           /\ iw' = [size |-> v1Size, toSkip |-> rest, rcrds |-> <<>>]
           /\ call' = [pc |-> "root", tee |-> TRUE, skip |-> skip, v1Size |-> v1Size,
                       written |-> written, ret |-> 0, err |-> "nil"]
    /\ setup
    /\ UNCHANGED <<dag, opts, tc, full, lsys, notSel>>

\* NewSelectiveWriter: with a payload size given the traversalCar is returned at
\* once, otherwise the traversal is run through the counting link system
NewSelectiveWriterStart ==
    /\ call.pc = "new"
    /\ IF opts.DataPayloadSize # 0
       THEN /\ call' = Idle
            /\ UNCHANGED <<ts, progress, todo, loads>>
       ELSE /\ call' = [Idle EXCEPT !.pc = "root"]
            /\ setup
    /\ UNCHANGED <<dag, opts, tc, iw, w, full, lsys, notSel>>

\* the link system the walk loads through: the resumer, the counting facade and,
\* in WriteV1, the teeing facade
SelOpen(path, l, seen) ==
    LET r == traverse(ts, seen, path, l)
        t == IF call.tee THEN TeeingOpen(lsys.teeing, iw, w, l) ELSE [iw |-> iw, w |-> w]
    IN  IF r.open
        THEN [ts |-> [r.ts EXCEPT !.lsCounter = CountingOpen(lsys, @, l)], seen |-> r.seen,
              iw |-> t.iw, w |-> t.w, open |-> TRUE]
        ELSE [ts |-> r.ts, seen |-> r.seen, iw |-> iw, w |-> w, open |-> FALSE]

\* traversalCar.traverse: the root block is loaded through the link system
LoadRoot ==
    /\ call.pc = "root"
    /\ LET r == SelOpen(<<>>, Root, progress.SeenLinks)
       IN  /\ ts' = r.ts
           /\ progress' = [SeenLinks |-> r.seen]
           /\ iw' = r.iw
           /\ w' = r.w
           /\ IF r.open
              THEN /\ todo' = ChildLinks(dag, <<>>, Root)
                   /\ loads' = Append(loads, [l |-> Root, path |-> <<>>,
                                               end |-> r.ts.lsCounter])
                   /\ call' = [call EXCEPT !.pc = "walk"]
              ELSE /\ todo' = <<>>
                   /\ loads' = loads
                   /\ call' = [call EXCEPT !.pc = "done", !.err = "root blk load failed",
                                           !.ret = iw.size - call.v1Size + call.written]
    /\ UNCHANGED <<dag, opts, tc, full, lsys, notSel>>

LinkVisitOnlyOnce == ~opts.BlockstoreAllowDuplicatePuts

\* the engine meets a link it has seen already and passes over it
WalkSkipSeen ==
    /\ call.pc = "walk"
    /\ todo # <<>>
    /\ LinkVisitOnlyOnce
    /\ Head(todo).l \in progress.SeenLinks
    /\ todo' = Tail(todo)
    /\ UNCHANGED <<dag, opts, tc, call, iw, w, ts, progress, loads, full, lsys, notSel>>

\* the engine meets a link and loads it through the link system
WalkLoad ==
    /\ call.pc = "walk"
    /\ todo # <<>>
    /\ ~(LinkVisitOnlyOnce /\ Head(todo).l \in progress.SeenLinks)
    /\ LET h == Head(todo)
           r == SelOpen(h.path, h.l,
                        IF LinkVisitOnlyOnce THEN progress.SeenLinks \cup {h.l}
                        ELSE progress.SeenLinks)
       IN  /\ ts' = r.ts
           /\ progress' = [SeenLinks |-> r.seen]
           /\ iw' = r.iw
           /\ w' = r.w
           /\ todo' = IF r.open THEN ChildLinks(dag, h.path, h.l) \o Tail(todo)
                      ELSE Tail(todo)
           /\ loads' = IF r.open
                      THEN Append(loads, [l |-> h.l, path |-> h.path, end |-> r.ts.lsCounter])
                      ELSE loads
    /\ UNCHANGED <<dag, opts, tc, call, full, lsys, notSel>>

\* NewSelectiveWriter after the traversal: the size the counting facade found
NewSelectiveWriterFinish ==
    /\ call.pc = "walk"
    /\ ~call.tee
    /\ todo = <<>>
    /\ tc' = [tc EXCEPT !.size = HeaderSize(Root) + ts.lsCounter]
    /\ call' = Idle
    /\ UNCHANGED <<dag, opts, iw, w, ts, progress, todo, loads, full, lsys, notSel>>

\* WriteV1 after the traversal: the size check and the result
WriteV1Finish ==
    /\ call.pc = "walk"
    /\ call.tee
    /\ todo = <<>>
    /\ LET v1Size == iw.size - call.v1Size + call.written
       IN  IF tc.size # 0 /\ tc.size # v1Size
           THEN /\ call' = [call EXCEPT !.pc = "done", !.ret = v1Size,
                                        !.err = "ErrSizeMismatch"]
                /\ tc' = tc
           ELSE /\ call' = [call EXCEPT !.pc = "done", !.ret = v1Size]
                /\ tc' = [tc EXCEPT !.size = v1Size]
    /\ full' = IF call.skip = 0 /\ ~full.set THEN [set |-> TRUE, bytes |-> w] ELSE full
    /\ UNCHANGED <<dag, opts, iw, w, ts, progress, todo, loads, lsys, notSel>>

\* TraverseV1 / NewSelectiveV1Reader build a new traversalCar for the same traversal
NewTraversalCar ==
    /\ call.pc = "done"
    /\ tc.size # opts.DataPayloadSize
    /\ tc' = [size |-> opts.DataPayloadSize]
    /\ call' = Idle
    /\ UNCHANGED <<dag, opts, iw, w, ts, progress, todo, loads, full, lsys, notSel>>

SelNext ==
    \/ \E skip \in 0..(Len(full.bytes) + 1) : WriteV1Start(skip)
    \/ LoadRoot
    \/ WalkSkipSeen
    \/ WalkLoad
    \/ WriteV1Finish
    \/ NewTraversalCar

SpecSel == SelInit /\ [][SelNext]_vars

\* the loader package in both revisions of the counting facade, over storages
\* that hand a block over in one read or in reads of Chunk bytes and that report
\* EOF with the last bytes or after them
Loaders ==
    {Released} \cup
    [teeing : {WritingLoader}, counting : {Part010}, chunk : {Chunk, 2 * BigLen},
     eofWithData : BOOLEAN]

\* NewSelectiveWriter for some DAG, then WriteTo / WriteV1 from the start
PreInit ==
    /\ opts \in [BlockstoreAllowDuplicatePuts : BOOLEAN, DataPayloadSize : {0}]
    /\ lsys \in Loaders
    /\ SelStart("new")
    /\ SelDormant

PreNext ==
    \/ NewSelectiveWriterStart
    \/ LoadRoot
    \/ WalkSkipSeen
    \/ WalkLoad
    \/ NewSelectiveWriterFinish
    \/ WriteV1Start(0)
    \/ WriteV1Finish

SpecPre == PreInit /\ [][PreNext]_vars

\* WriteV1 with and without skips through either revision of the teeing facade
TeeInit ==
    /\ opts \in [BlockstoreAllowDuplicatePuts : BOOLEAN, DataPayloadSize : {0}]
    /\ lsys \in [teeing : {WritingLoader, Part009}, counting : {CountingLoader},
                  chunk : {2 * BigLen}, eofWithData : {FALSE}]
    /\ SelStart("idle")
    /\ SelDormant

SpecTee == TeeInit /\ [][SelNext]_vars

-----------------------------------------------------------------------------
(* Resuming a walk by offset (v2/traversal/resumption.go, as driven by      *)
(* TestWalkResumeByOffset): a Progress whose link system is wrapped by      *)
(* WithTraversingLinksystem walks the DAG from its root node, the resumer   *)
(* is rewound to a byte offset and the same Progress walks again.           *)

MaxRewinds == 1     \* RewindToOffset calls on one resumer

\* traversalState.RewindToOffset
RewindToOffset(t, seen, offset) ==
    IF t.lsCounter = offset
    THEN [ts |-> t, seen |-> seen]
    ELSE [ts |-> [t EXCEPT !.pendingBlockStart = t.lsCounter,
                           !.lsCounter = 0,
                           !.rewindOffsetTarget = offset,
                           !.rewindPathTarget = NoPath],
          seen |-> {}]

\* the first run has not ended yet
NoRun == [set |-> FALSE, loads |-> <<>>]

\* WithTraversingLinksystem on a new Progress, then Progress.WalkAdv from the root node
ResInit ==
    /\ opts \in [BlockstoreAllowDuplicatePuts : BOOLEAN, DataPayloadSize : {0}]
    /\ lsys = Released
    /\ dag \in DAGs
    /\ tc = [size |-> 0]
    /\ call = [pc |-> "walk", tee |-> FALSE, skip |-> 0, rewinds |-> 0]
    /\ iw = NoWriter
    /\ w = <<>>
    /\ ts = NewTraversalState(NewPathState)
    /\ progress = [SeenLinks |-> {}]
    /\ todo = ChildLinks(dag, <<>>, Root)
    /\ loads = <<>>
    /\ full = NoRun
    /\ SelDormant

\* Progress.WalkAdv returns: every link has been visited
WalkReturn ==
    /\ call.pc = "walk"
    /\ todo = <<>>
    /\ call' = [call EXCEPT !.pc = "done"]
    /\ full' = IF full.set THEN full ELSE [set |-> TRUE, loads |-> loads]
    /\ UNCHANGED <<dag, opts, tc, iw, w, ts, progress, todo, loads, lsys, notSel>>

\* resumer.RewindToOffset(offset), then the same Progress walks from the root node again
ResumeByOffset(offset) ==
    /\ call.pc = "done"
    /\ call.rewinds < MaxRewinds
    /\ LET r == RewindToOffset(ts, progress.SeenLinks, offset)
       IN  /\ ts' = r.ts
           /\ progress' = [SeenLinks |-> r.seen]
    /\ todo' = ChildLinks(dag, <<>>, Root)
    /\ loads' = <<>>
    /\ call' = [call EXCEPT !.pc = "walk", !.skip = offset, !.rewinds = @ + 1]
    /\ UNCHANGED <<dag, opts, tc, iw, w, full, lsys, notSel>>

ResNext ==
    \/ WalkSkipSeen
    \/ WalkLoad
    \/ WalkReturn
    \/ \E offset \in 0..(ts.lsCounter + 1) : ResumeByOffset(offset)

SpecRes == ResInit /\ [][ResNext]_vars

-----------------------------------------------------------------------------
(* Resuming a walk by path (TestWalkResumeByPath and                        *)
(* TestWalkResumeByPathPartialWalk): the first walk runs to its end or is   *)
(* ended early by the visit function, the resumer is rewound to a path and  *)
(* the same Progress walks again.                                           *)

\* traversalState.RewindToPath
RewindToPath(t, from) ==
    [t EXCEPT !.pendingBlockStart = t.lsCounter,
              !.lsCounter = 0,
              !.rewindPathTarget = [set |-> TRUE, path |-> from],
              !.rewindOffsetTarget = 0]

\* WithTraversingLinksystem on a new Progress, then Progress.WalkAdv from the root node
PathInit ==
    /\ opts \in [BlockstoreAllowDuplicatePuts : BOOLEAN, DataPayloadSize : {0}]
    /\ lsys = Released
    /\ dag \in DAGs
    /\ tc = [size |-> 0]
    /\ call = [pc |-> "walk", tee |-> FALSE, target |-> NoPath, rewinds |-> 0]
    /\ iw = NoWriter
    /\ w = <<>>
    /\ ts = NewTraversalState(NewPathState)
    /\ progress = [SeenLinks |-> {}]
    /\ todo = ChildLinks(dag, <<>>, Root)
    /\ loads = <<>>
    /\ full = NoRun
    /\ SelDormant

\* the visit function of the first walk returns SkipMe: Progress.WalkAdv ends early
WalkAbort ==
    /\ call.pc = "walk"
    /\ call.rewinds = 0
    /\ todo # <<>>
    /\ call' = [call EXCEPT !.pc = "done"]
    /\ todo' = <<>>
    /\ full' = [set |-> TRUE, loads |-> loads]
    /\ UNCHANGED <<dag, opts, tc, iw, w, ts, progress, loads, lsys, notSel>>

\* resumer.RewindToPath(from), then the same Progress walks from the root node again
ResumeByPath(from) ==
    /\ call.pc = "done"
    /\ call.rewinds < MaxRewinds
    /\ ts' = RewindToPath(ts, from)
    /\ progress' = [SeenLinks |-> {}]
    /\ todo' = ChildLinks(dag, <<>>, Root)
    /\ loads' = <<>>
    /\ call' = [call EXCEPT !.pc = "walk", !.target = [set |-> TRUE, path |-> from],
                            !.rewinds = @ + 1]
    /\ UNCHANGED <<dag, opts, tc, iw, w, full, lsys, notSel>>

\* a rewind goes to the start or to a path the first walk has loaded
PathNext ==
    \/ WalkSkipSeen
    \/ WalkLoad
    \/ WalkReturn
    \/ WalkAbort
    \/ \E from \in DOMAIN ts.pathTree : ResumeByPath(from)

SpecPath == PathInit /\ [][PathNext]_vars

-----------------------------------------------------------------------------
(* CarOffsetWriter (part_004): a CAR v1 of the DAG under a root, written     *)
(* from a byte offset on.  merkledag.Walk calls nextCid once for every CID,  *)
(* depth first, in the order of the links.                                   *)

MaxWrites == 3      \* Write calls on one CarOffsetWriter
Near == 2           \* distance of a write offset from a section boundary

\* a writer that takes all the bytes
NoFail == -1

\* skipWrite with the skip ignored
skipWriteAll(bz, skip) == bz

\* skipWrite: the bytes the write function produces, less the first skip bytes
skipWrite(bz, skip) ==
    IF skip = 0 THEN bz
    ELSE IF skip >= Len(bz) THEN <<>>
    ELSE Drop(bz, skip)

\* writeHeader: the header bytes written and the header size
writeHeader(offset) ==
    [out |-> IF offset >= HeaderSize(Root) THEN <<>> ELSE skipWrite(HeaderBytes(Root), offset),
     headerSize |-> HeaderSize(Root)]

\* nextCid of writeBlocks for the CID c.  st holds blockInfos, the running offset,
\* the bytes written and the number of block writes the io.Writer still takes
\* (NoFail: all of them)
nextCid(d, writeOffset, st, c) ==
    LET ldsize == LdSize(CidBytes(c), RawData(c))
        nextBlockOffset == st.offset + ldsize
        blockWriteOffset == IF writeOffset >= st.offset THEN writeOffset - st.offset ELSE 0
        cache == (c :> [offset |-> st.offset, size |-> ldsize, links |-> d[c]])
                 @@ st.blockInfos
    IN  IF /\ c \in DOMAIN st.blockInfos
           /\ writeOffset >= st.blockInfos[c].offset + st.blockInfos[c].size
        THEN [st EXCEPT !.offset = st.blockInfos[c].offset + st.blockInfos[c].size,
                        !.links = st.blockInfos[c].links]
        ELSE IF writeOffset < nextBlockOffset
        THEN (IF st.takes = 0
              THEN [st EXCEPT !.err = "writing CAR block", !.links = <<>>]
              ELSE [st EXCEPT !.out = @ \o skipWrite(LdWrite(CidBytes(c), RawData(c)),
                                                     blockWriteOffset),
                              !.takes = IF @ = NoFail THEN @ ELSE @ - 1,
                              !.blockInfos = cache,
                              !.offset = nextBlockOffset,
                              !.links = d[c]])
        ELSE [st EXCEPT !.blockInfos = cache, !.offset = nextBlockOffset, !.links = d[c]]

RECURSIVE Walk(_, _, _, _, _)
\* merkledag.Walk with cid.Set.Visit: pending holds the CIDs still to be walked
Walk(d, writeOffset, st, seen, pending) ==
    LET descend(r, c) ==
            IF r.err # "nil" THEN r
            ELSE Walk(d, writeOffset, r, seen \cup {c}, r.links \o Tail(pending))
    IN  IF pending = <<>> THEN st
        ELSE IF Head(pending) \in seen THEN Walk(d, writeOffset, st, seen, Tail(pending))
        ELSE descend(nextCid(d, writeOffset, st, Head(pending)), Head(pending))

\* writeBlocks
writeBlocks(d, blockInfos, headerSize, writeOffset, out, takes) ==
    Walk(d, writeOffset,
         [blockInfos |-> blockInfos, offset |-> headerSize, out |-> out, takes |-> takes,
          links |-> <<>>, err |-> "nil"],
         {}, <<Root>>)

\* CarOffsetWriter.Write(ctx, w, offset)
CarOffsetWriterWrite(d, blockInfos, offset, takes) ==
    LET blocks(h) == writeBlocks(d, blockInfos, h.headerSize, offset, h.out, takes)
    IN  blocks(writeHeader(offset))

\* NewCarOffsetWriter over the blockstore of some DAG
CowInit ==
    /\ \E d \in DAGs : cow = [nodeGetter |-> d, blockInfos |-> <<>>]
    /\ wcall = [n |-> 0, offset |-> 0, out |-> <<>>, err |-> "nil", cached |-> {}]
    /\ CowDormant

\* the bytes of the CAR from offset 0: TestCarOffsetWriter's fullCar
FullCar == CarOffsetWriterWrite(cow.nodeGetter, <<>>, 0, NoFail).out

\* Write from an offset into a writer that takes all the bytes or fails after
\* some blocks
Write(offset, takes) ==
    /\ wcall.n < MaxWrites
    /\ LET return(r) ==
               /\ cow' = [cow EXCEPT !.blockInfos = r.blockInfos]
               /\ wcall' = [n |-> wcall.n + 1, offset |-> offset, out |-> r.out,
                            err |-> r.err, cached |-> DOMAIN cow.blockInfos]
       IN  return(CarOffsetWriterWrite(cow.nodeGetter, cow.blockInfos, offset, takes))
    /\ UNCHANGED notCow

\* where the sections of the CAR start and end
Boundaries ==
    LET infos == CarOffsetWriterWrite(cow.nodeGetter, <<>>, 0, NoFail).blockInfos
    IN  {0} \cup UNION {{infos[c].offset, infos[c].offset + infos[c].size} :
                        c \in DOMAIN infos}

\* the offsets to write from: up to Near bytes before and after each boundary, so
\* inside the header, on the boundaries and inside every block
Offsets ==
    {k \in 0..(Len(FullCar) + 1) : \E b \in Boundaries : k - b \in (0 - Near)..Near}

CowNext ==
    \E offset \in Offsets, takes \in {NoFail} \cup 0..(MaxBlocks - 1) :
        Write(offset, takes)

SpecCow == CowInit /\ [][CowNext]_vars

-----------------------------------------------------------------------------
(* Pipe-backed reader-seekers: CarReaderSeeker over CarOffsetWriter.Write    *)
(* and SkipWriterReaderSeeker over a ReWriter.  A Read with no write in      *)
(* progress starts a goroutine that writes from the current offset into an   *)
(* io.Pipe; a Seek sets the offset, closes the pipe and waits for the        *)
(* goroutine.  The writer emits Full from the offset it is given and reports *)
(* the number of bytes the pipe took.  Every Read asks for one byte.         *)

FullLen == 3        \* length of the writer's complete output
MaxOps == 4         \* Reads and Seeks of the caller

Full == [i \in 1..FullLen |-> 40 + i]

CarReaderSeeker == "CarReaderSeeker"
SkipWriterReaderSeeker == "SkipWriterReaderSeeker"

SeekStart == "io.SeekStart"
SeekCurrent == "io.SeekCurrent"
SeekEnd == "io.SeekEnd"

NoGoroutine == [pc |-> "none", skip |-> 0, amnt |-> 0, tmp |-> 0, closed |-> FALSE,
                cancelled |-> FALSE]

\* NewCarReaderSeeker(ctx, payloadCid, bstore, size), NewSkipWriterReaderSeeker(ctx,
\* size, cons) with the size known or 0
RsInit ==
    /\ rs \in [kind : {CarReaderSeeker}, offset : {0}, size : {FullLen}, reader : {FALSE}]
           \cup [kind : {SkipWriterReaderSeeker}, offset : {0}, size : {0, FullLen},
                 reader : {FALSE}]
    /\ gor = NoGoroutine
    /\ usr = [pc |-> "idle", ops |-> 0, cur |-> 0, want |-> 0, since |-> <<>>,
              eof |-> FALSE, err |-> "nil",
              seek |-> [ok |-> FALSE, want |-> 0, ret |-> 0]]
    /\ RsDormant

\* Read up to the pipe read: the size check of CarReaderSeeker, and the start of
\* the writer goroutine when no write is in progress
Read ==
    /\ usr.pc = "idle"
    /\ usr.ops < MaxOps
    /\ IF rs.kind = CarReaderSeeker /\ rs.offset >= rs.size
       THEN /\ usr' = [usr EXCEPT !.ops = @ + 1, !.err = "cannot read from offset"]
            /\ UNCHANGED <<rs, gor>>
       ELSE /\ usr' = [usr EXCEPT !.ops = @ + 1, !.pc = "read", !.err = "nil"]
            /\ IF rs.reader
               THEN UNCHANGED <<rs, gor>>
               ELSE /\ rs' = [rs EXCEPT !.reader = TRUE]
                    /\ gor' = [NoGoroutine EXCEPT !.pc = "write", !.skip = rs.offset]
    /\ UNCHANGED notRs

\* c.reader.Read(p) returns: the next byte the writer hands to the pipe, or EOF
\* once the write end is closed
PipeRead ==
    /\ usr.pc = "read"
    /\ IF gor.closed
       THEN /\ usr' = [usr EXCEPT !.pc = "idle", !.eof = TRUE]
            /\ gor' = gor
       ELSE /\ gor.pc = "write"
            /\ gor.skip + gor.amnt < Len(Full)
            /\ usr' = [usr EXCEPT !.pc = "idle", !.cur = @ + 1,
                                  !.since = Append(@, Full[gor.skip + gor.amnt + 1])]
            /\ gor' = [gor EXCEPT !.amnt = @ + 1]
    /\ UNCHANGED <<rs, notRs>>

\* the writer returns: all bytes written, or the pipe closed under it
WriterReturn ==
    /\ gor.pc = "write"
    /\ gor.skip + gor.amnt >= Len(Full) \/ gor.cancelled
    /\ gor' = [gor EXCEPT !.pc = IF rs.kind = SkipWriterReaderSeeker THEN "add"
                                 ELSE "close"]
    /\ UNCHANGED <<rs, usr, notRs>>

\* c.offset += amnt in the goroutine of SkipWriterReaderSeeker: the load
OffsetLoad ==
    /\ gor.pc = "add"
    /\ gor' = [gor EXCEPT !.pc = "store", !.tmp = rs.offset + gor.amnt]
    /\ UNCHANGED <<rs, usr, notRs>>

\* c.offset += amnt: the store
OffsetStore ==
    /\ gor.pc = "store"
    /\ rs' = [rs EXCEPT !.offset = gor.tmp]
    /\ gor' = [gor EXCEPT !.pc = "close"]
    /\ UNCHANGED <<usr, notRs>>

\* pw.Close() and c.writeComplete <- struct{}{}
PipeClose ==
    /\ gor.pc = "close"
    /\ gor' = [gor EXCEPT !.pc = "done", !.closed = TRUE]
    /\ UNCHANGED <<rs, usr, notRs>>

\* the offset a Seek computes, -1 for the offsets it rejects
SeekTarget(whence, offset) ==
    IF whence = SeekStart THEN (IF offset < 0 THEN -1 ELSE offset)
    ELSE IF whence = SeekCurrent
    THEN (IF rs.offset + offset < 0 THEN -1 ELSE rs.offset + offset)
    ELSE IF rs.kind = SkipWriterReaderSeeker /\ rs.size = 0 THEN -1
    ELSE IF rs.size + offset < 0 THEN -1 ELSE rs.size + offset

\* the position the io.Seeker rules give the Seek: relative to the start, to the
\* position the Reads have reached, or to the end
SeekWant(whence, offset) ==
    IF whence = SeekStart THEN offset
    ELSE IF whence = SeekCurrent THEN usr.cur + offset
    ELSE Len(Full) + offset

\* Seek up to the wait for the writer: the new offset, the cancel and the close
\* of the read end; with no write in progress Seek returns at once
Seek(offset, whence) ==
    /\ usr.pc = "idle"
    /\ usr.ops < MaxOps
    /\ IF SeekTarget(whence, offset) < 0
       THEN /\ usr' = [usr EXCEPT !.ops = @ + 1, !.err = "invalid offset"]
            /\ UNCHANGED <<rs, gor>>
       ELSE /\ rs' = [rs EXCEPT !.offset = SeekTarget(whence, offset)]
            /\ IF rs.reader
               THEN /\ gor' = [gor EXCEPT !.cancelled = TRUE]
                    /\ usr' = [usr EXCEPT !.ops = @ + 1, !.pc = "seek", !.err = "nil",
                                          !.want = SeekWant(whence, offset)]
               ELSE /\ gor' = gor
                    /\ usr' = [usr EXCEPT !.ops = @ + 1, !.err = "nil",
                                          !.cur = SeekWant(whence, offset),
                                          !.since = <<>>, !.eof = FALSE,
                                          !.seek = [ok |-> TRUE,
                                                    want |-> SeekWant(whence, offset),
                                                    ret |-> SeekTarget(whence, offset)]]
    /\ UNCHANGED notRs

\* Seek after <-c.writeComplete: the reader is dropped and c.offset returned
SeekReturn ==
    /\ usr.pc = "seek"
    /\ gor.pc = "done"
    /\ rs' = [rs EXCEPT !.reader = FALSE]
    /\ usr' = [usr EXCEPT !.pc = "idle", !.cur = usr.want, !.since = <<>>, !.eof = FALSE,
                          !.seek = [ok |-> TRUE, want |-> usr.want, ret |-> rs.offset]]
    /\ UNCHANGED <<gor, notRs>>

RsNext ==
    \/ Read
    \/ PipeRead
    \/ WriterReturn
    \/ OffsetLoad
    \/ OffsetStore
    \/ PipeClose
    \/ \E offset \in -1..(FullLen + 1), whence \in {SeekStart, SeekCurrent, SeekEnd} :
          Seek(offset, whence)
    \/ SeekReturn

SpecRs == RsInit /\ [][RsNext]_vars

-----------------------------------------------------------------------------
(* CIDs, blocks and the CAR v1 decoder (v3/carv1.go).  A CID is the byte    *)
(* string <<version, codec, hash code, digest length>> \o digest; each of   *)
(* its varints fits one byte here.  sha2-256 is a one-byte checksum.        *)

RECURSIVE SumBytes(_)
SumBytes(d) == IF d = <<>> THEN 0 ELSE Head(d) + SumBytes(Tail(d))

\* the digest the hash function with this code gives the data: the data itself
\* for the identity hash (code 0), the checksum otherwise
Digest(mhType, data) ==
    IF mhType = 0 THEN data ELSE <<(SumBytes(data) + 31 * Len(data)) % 256>>

\* cid.NewCidV1(codec, multihash)
NewCidV1(codec, mhType, digest) == <<1, codec, mhType, Len(digest)>> \o digest

\* a sum that is the CID whatever the data
PrefixSumTrusting(c, data) == c

\* cid.Prefix().Sum(data)
PrefixSum(c, data) == NewCidV1(c[2], c[3], Digest(c[3], data))

\* cid.Hash(): the multihash
Hash(c) == Drop(c, 2)

\* blockstore.isIdentity: the multihash's code is IDENTITY
isIdentity(c) == c[3] = 0

\* blocks.NewBlockWithCid for a payload, a codec and a hash function
NewBlock(codec, mhType, data) ==
    [cid |-> NewCidV1(codec, mhType, Digest(mhType, data)), data |-> data]

Undef == <<>>

RECURSIVE readUvarint(_, _, _, _, _)
\* varint.ReadUvarint over the bytes of s that follow pos; i bytes read so far
readUvarint(s, pos, i, x, mul) ==
    IF pos + i >= Len(s)
    THEN [x |-> 0, n |-> i, err |-> IF i = 0 THEN "EOF" ELSE "ErrUnexpectedEOF"]
    ELSE LET b == s[pos + i + 1] IN
         IF b < 128
         THEN (IF b = 0 /\ i > 0 THEN [x |-> 0, n |-> i + 1, err |-> "ErrNotMinimal"]
               ELSE [x |-> x + b * mul, n |-> i + 1, err |-> "nil"])
         ELSE IF i >= 8 THEN [x |-> 0, n |-> i + 1, err |-> "ErrOverflow"]
         ELSE readUvarint(s, pos, i + 1, x + (b - 128) * mul, mul * 128)

ReadUvarint(s, pos) == readUvarint(s, pos, 0, 0, 1)

\* a length prefix read without the limit
lengthPrefixedReadSizeUnbounded(s, pos, zeroLenAsEOF, maxReadBytes) ==
    LET size(v) ==
            IF v.err # "nil" THEN [l |-> 0, pos |-> pos + v.n, err |-> v.err]
            ELSE IF v.x = 0 /\ zeroLenAsEOF THEN [l |-> 0, pos |-> pos + v.n, err |-> "EOF"]
            ELSE [l |-> v.x, pos |-> pos + v.n, err |-> "nil"]
    IN  size(ReadUvarint(s, pos))

\* a length prefix read that takes every zero length for the end
lengthPrefixedReadSizeZeroEnds(s, pos, zeroLenAsEOF, maxReadBytes) ==
    LET size(v) ==
            IF v.err # "nil" THEN [l |-> 0, pos |-> pos + v.n, err |-> v.err]
            ELSE IF v.x = 0 THEN [l |-> 0, pos |-> pos + v.n, err |-> "EOF"]
            ELSE IF v.x > maxReadBytes
                 THEN [l |-> 0, pos |-> pos + v.n, err |-> "ErrSectionTooLarge"]
            ELSE [l |-> v.x, pos |-> pos + v.n, err |-> "nil"]
    IN  size(ReadUvarint(s, pos))

\* lengthPrefixedReadSize: the declared length, checked against the maximum
lengthPrefixedReadSize(s, pos, zeroLenAsEOF, maxReadBytes) ==
    LET size(v) ==
            IF v.err # "nil" THEN [l |-> 0, pos |-> pos + v.n, err |-> v.err]
            ELSE IF v.x = 0 /\ zeroLenAsEOF THEN [l |-> 0, pos |-> pos + v.n, err |-> "EOF"]
            ELSE IF v.x > maxReadBytes
                 THEN [l |-> 0, pos |-> pos + v.n, err |-> "ErrSectionTooLarge"]
            ELSE [l |-> v.x, pos |-> pos + v.n, err |-> "nil"]
    IN  size(ReadUvarint(s, pos))

\* lengthPrefixedRead: the buffer of the declared length is made once the length
\* has passed the check, then filled with io.ReadFull
lengthPrefixedRead(s, pos, zeroLenAsEOF, maxReadBytes) ==
    LET fill(r, avail) ==
            IF r.err # "nil"
            THEN [buf |-> <<>>, pos |-> r.pos, err |-> r.err, alloc |-> <<>>]
            ELSE IF avail < r.l
            THEN [buf |-> <<>>, pos |-> r.pos + avail,
                  err |-> IF avail = 0 THEN "EOF" ELSE "ErrUnexpectedEOF",
                  alloc |-> <<r.l>>]
            ELSE [buf |-> SubSeq(s, r.pos + 1, r.pos + r.l), pos |-> r.pos + r.l,
                  err |-> "nil", alloc |-> <<r.l>>]
        read(r) == fill(r, Min(r.l, Len(s) - r.pos))
    IN  read(lengthPrefixedReadSize(s, pos, zeroLenAsEOF, maxReadBytes))

\* cid.CidFromBytes: version 1, codec, multihash code, digest length, digest
CidFromBytes(data) ==
    IF Len(data) < 4 \/ data[1] # 1 \/ Len(data) < 4 + data[4]
    THEN [n |-> 0, cid |-> Undef, err |-> "invalid cid"]
    ELSE [n |-> 4 + data[4], cid |-> SubSeq(data, 1, 4 + data[4]), err |-> "nil"]

\* ReadSection
ReadSection(s, pos, zeroLenAsEOF, maxReadBytes) ==
    LET split(d, c) ==
            IF d.err # "nil"
            THEN [cid |-> Undef, data |-> <<>>, pos |-> d.pos, err |-> d.err,
                  alloc |-> d.alloc]
            ELSE IF c.err # "nil"
            THEN [cid |-> Undef, data |-> <<>>, pos |-> d.pos, err |-> c.err,
                  alloc |-> d.alloc]
            ELSE [cid |-> c.cid, data |-> Drop(d.buf, c.n), pos |-> d.pos, err |-> "nil",
                  alloc |-> d.alloc]
        section(d) == split(d, CidFromBytes(d.buf))
    IN  section(lengthPrefixedRead(s, pos, zeroLenAsEOF, maxReadBytes))

RECURSIVE decodeRoots(_, _)
\* the n root CIDs at the head of the bytes, and the bytes after them
decodeRoots(bytes, n) ==
    LET cons(c, more) == [ok |-> more.ok, roots |-> <<c.cid>> \o more.roots,
                          rest |-> more.rest]
        next(c) == IF c.err # "nil" THEN [ok |-> FALSE, roots |-> <<>>, rest |-> <<>>]
                   ELSE cons(c, decodeRoots(Drop(bytes, c.n), n - 1))
    IN  IF n = 0 THEN [ok |-> TRUE, roots |-> <<>>, rest |-> bytes]
        ELSE next(CidFromBytes(bytes))

\* ipld.Decode of the header bytes against the CarV1HeaderOrV2Pragma schema:
\* {roots, version} or {version}
decodeHeader(hb) ==
    LET bad == [ok |-> FALSE, hasRoots |-> FALSE, roots |-> <<>>, version |-> 0]
        header(r) ==
            IF r.ok /\ Len(r.rest) = 1
            THEN [ok |-> TRUE, hasRoots |-> TRUE, roots |-> r.roots, version |-> r.rest[1]]
            ELSE bad
    IN  IF Len(hb) = 10 /\ SubSeq(hb, 1, 9) = <<161, 103, 118, 101, 114, 115, 105, 111, 110>>
        THEN [ok |-> TRUE, hasRoots |-> FALSE, roots |-> <<>>, version |-> hb[10]]
        ELSE IF Len(hb) >= 3 /\ hb[1] = 162 /\ hb[2] >= 128
        THEN header(decodeRoots(Drop(hb, 2), hb[2] - 128))
        ELSE bad

\* V1Header.ReadFromChecked
ReadFromChecked(s, pos, maxReadBytes) ==
    LET failed(d, e) == [roots |-> <<>>, version |-> 0, pos |-> d.pos, alloc |-> d.alloc,
                         err |-> e]
        check(d, h) ==
            IF d.err # "nil"
            THEN failed(d, IF d.err = "ErrSectionTooLarge" THEN "ErrHeaderTooLarge"
                           ELSE d.err)
            ELSE IF ~h.ok THEN failed(d, "invalid header")
            ELSE IF h.version = 1 /\ ~h.hasRoots THEN failed(d, "invalid header: no roots")
            ELSE IF h.version \notin {1, 2} THEN failed(d, "invalid car version")
            ELSE [roots |-> h.roots, version |-> h.version, pos |-> d.pos,
                  alloc |-> d.alloc, err |-> "nil"]
        decode(d) == check(d, decodeHeader(d.buf))
    IN  decode(lengthPrefixedRead(s, pos, FALSE, maxReadBytes))

-----------------------------------------------------------------------------
(* Write-only blockstore (v2/blockstore/writeonly.go) *)

MaxPuts == 3        \* blocks handed to the blockstore in one run
MaxBatch == 2       \* blocks of one PutMany

\* the blocks a caller may put: two payloads, each under two codecs and under the
\* sha2-256 and the identity hash
Payloads == {<<10>>, <<20, 21>>}
PutBlocks == {NewBlock(codec, mhType, d) : codec \in {85, 113}, mhType \in {18, 0},
                                           d \in Payloads}

\* a lookup that stops at the multihash
hasExactByHash(blocks, c) == Hash(c) \in DOMAIN blocks

\* WriteOnly.hasExact
hasExact(blocks, c) ==
    IF Hash(c) \notin DOMAIN blocks THEN Undef = c ELSE FALSE

RECURSIVE putMany(_, _, _)
\* the loop of WriteOnly.PutMany over the blocks still to put; st is the
\* blockstore's map, its output and the sections written so far
putMany(o, st, blks) ==
    IF blks = <<>> THEN st @@ [err |-> "nil"]
    ELSE LET bl == Head(blks)
             c == bl.cid
         IN  IF ~o.StoreIdentityCIDs /\ isIdentity(c) THEN putMany(o, st, Tail(blks))
             ELSE IF Len(c) > o.MaxIndexCidSize THEN st @@ [err |-> "ErrCidTooLarge"]
             ELSE IF /\ ~o.BlockstoreAllowDuplicatePuts
                     /\ o.BlockstoreUseWholeCIDs
                     /\ hasExact(st.blocks, c)
             THEN putMany(o, st, Tail(blks))
             ELSE IF /\ ~o.BlockstoreAllowDuplicatePuts
                     /\ ~o.BlockstoreUseWholeCIDs
                     /\ Hash(c) \in DOMAIN st.blocks
             THEN putMany(o, st, Tail(blks))
             ELSE putMany(o,
                          [blocks |-> (Hash(c) :> [cid |-> c, size |-> Len(bl.data)])
                                      @@ st.blocks,
                           car |-> st.car \o LdWrite(c, bl.data),
                           wrote |-> Append(st.wrote, bl)],
                          Tail(blks))

\* the reader before NewBlockReader
NoReader(o, seeker) ==
    [state |-> "none", version |-> 0, roots |-> <<>>, pos |-> 0, offset |-> 0,
     readerSize |-> -1, opts |-> o, seeker |-> seeker, limit |-> -1]

NoRet == [op |-> "none", at |-> 0, cid |-> Undef, data |-> <<>>, meta |-> <<>>,
          err |-> "nil", alloc |-> <<>>]

\* car.ApplyOptions() of the reader: 32 MiB of header, 8 MiB per section
DefaultReaderOpts ==
    [TrustedCAR |-> FALSE, ZeroLengthSectionAsEOF |-> FALSE,
     MaxAllowedHeaderSize |-> 32 * 1024 * 1024, MaxAllowedSectionSize |-> 8 * 1024 * 1024]

WoRoots == {<<NewBlock(113, 18, <<10>>).cid>>,
            <<NewBlock(113, 18, <<10>>).cid, NewBlock(85, 18, <<20, 21>>).cid>>}

\* CreateWriteOnlyV1(out, roots, opts...): the header is written
WoInit ==
    /\ wo \in [opts : [BlockstoreAllowDuplicatePuts : BOOLEAN,
                       BlockstoreUseWholeCIDs : BOOLEAN,
                       StoreIdentityCIDs : BOOLEAN,
                       MaxIndexCidSize : {5, 2048}],
               blocks : {<<>>}, err : {"nil"}, roots : WoRoots]
    /\ car = LdWrite(headerBytes(wo.roots, 1), <<>>)
    /\ puts = <<>>
    /\ wrote = <<>>
    /\ br = NoReader(DefaultReaderOpts, FALSE)
    /\ ret = NoRet
    /\ got = <<>>
    /\ BsDormant

\* WriteOnly.PutMany (Put is PutMany of one block)
PutMany(blks) ==
    /\ br.state = "none"
    /\ Len(puts) + Len(blks) <= MaxPuts
    /\ LET store(r) ==
               /\ wo' = [wo EXCEPT !.blocks = r.blocks, !.err = r.err]
               /\ car' = r.car
               /\ wrote' = r.wrote
       IN  store(putMany(wo.opts, [blocks |-> wo.blocks, car |-> car, wrote |-> wrote],
                         blks))
    /\ puts' = puts \o blks
    /\ UNCHANGED <<br, ret, got, notBs>>

-----------------------------------------------------------------------------
(* Block reader (v3: NewBlockReader, Next, SkipNext) over the bytes in car *)

V2PragmaSize == 11
V2HeaderSize == 40
V2CharacteristicsSize == 16

\* V2Pragma: a CARv1 header of version 2 without roots
V2Pragma == <<10, 161, 103, 118, 101, 114, 115, 105, 111, 110, 2>>

RECURSIVE PutUint64(_, _)
\* binary.LittleEndian.PutUint64 into n bytes
PutUint64(x, n) == IF n = 0 THEN <<>> ELSE <<x % 256>> \o PutUint64(x \div 256, n - 1)

RECURSIVE Uint64(_)
\* binary.LittleEndian.Uint64
Uint64(b) == IF b = <<>> THEN 0 ELSE b[1] + 256 * Uint64(Tail(b))

\* NewV2Header(dataSize)
NewV2Header(dataSize) ==
    [Characteristics |-> 0, DataOffset |-> V2PragmaSize + V2HeaderSize, DataSize |-> dataSize,
     IndexOffset |-> V2PragmaSize + V2HeaderSize + dataSize]

\* V2Header.WriteTo
V2HeaderWriteTo(h) ==
    PutUint64(h.Characteristics, V2CharacteristicsSize) \o PutUint64(h.DataOffset, 8)
        \o PutUint64(h.DataSize, 8) \o PutUint64(h.IndexOffset, 8)

\* V2Header.ReadFrom over the bytes of s that follow pos; the fields read stay
\* below 2^31, where the casts to int64 change nothing
V2HeaderReadFrom(s, pos) ==
    LET none == NewV2Header(0)
        short(n, want) ==
            [h |-> none, pos |-> pos + n,
             err |-> IF n = want THEN "nil" ELSE IF n = 0 THEN "EOF" ELSE "ErrUnexpectedEOF"]
        checked(h, p) ==
            IF h.DataOffset < V2PragmaSize + V2HeaderSize
            THEN [h |-> none, pos |-> p, err |-> "invalid data payload offset"]
            ELSE IF h.DataSize <= 0
            THEN [h |-> none, pos |-> p, err |-> "invalid data payload size"]
            ELSE IF h.IndexOffset < 0
            THEN [h |-> none, pos |-> p, err |-> "invalid index offset"]
            ELSE [h |-> h, pos |-> p, err |-> "nil"]
        fields(p) ==
            IF Len(s) - p < 24 THEN short(V2CharacteristicsSize + Len(s) - p, V2HeaderSize)
            ELSE checked([Characteristics |-> Uint64(SubSeq(s, pos + 1, pos + 16)),
                          DataOffset |-> Uint64(SubSeq(s, p + 1, p + 8)),
                          DataSize |-> Uint64(SubSeq(s, p + 9, p + 16)),
                          IndexOffset |-> Uint64(SubSeq(s, p + 17, p + 24))], p + 24)
    IN  IF Len(s) - pos < V2CharacteristicsSize
        THEN short(IF Len(s) > pos THEN Len(s) - pos ELSE 0, V2CharacteristicsSize)
        ELSE fields(pos + V2CharacteristicsSize)

\* what a reader limited to the bytes before limit can read of s
Limited(s, limit) == IF limit = -1 THEN s ELSE SubSeq(s, 1, Min(limit, Len(s)))

\* the bytes br.r reads from
Input == Limited(car, br.limit)

\* NewBlockReader over a CARv1 or a CARv2
NewBlockReader ==
    /\ br.state = "none"
    /\ LET fail(p, e, alloc) ==
               /\ ret' = [NoRet EXCEPT !.op = "NewBlockReader", !.err = e, !.alloc = alloc]
               /\ br' = [br EXCEPT !.state = "failed", !.pos = p]
           inner(v, start, ih) ==
               IF ih.err # "nil" THEN fail(ih.pos, ih.err, ih.alloc)
               ELSE IF ih.version # 1
               THEN fail(ih.pos, "invalid data payload header version", ih.alloc)
               ELSE /\ ret' = [NoRet EXCEPT !.op = "NewBlockReader", !.alloc = ih.alloc]
                    /\ br' = [br EXCEPT !.state = "open", !.version = 2, !.roots = ih.roots,
                                        !.pos = ih.pos, !.offset = v.h.DataOffset,
                                        !.readerSize = v.h.DataOffset + v.h.DataSize,
                                        !.limit = start + v.h.DataSize]
           seek(v, start) ==
               inner(v, start,
                     ReadFromChecked(Limited(car, start + v.h.DataSize), start,
                                     br.opts.MaxAllowedHeaderSize))
           v2(h, v) ==
               IF v.err # "nil" THEN fail(v.pos, v.err, h.alloc)
               ELSE seek(v, v.pos + v.h.DataOffset - V2PragmaSize - V2HeaderSize)
           open(h) ==
               IF h.err # "nil" THEN fail(h.pos, h.err, h.alloc)
               ELSE IF h.version = 2 THEN v2(h, V2HeaderReadFrom(car, h.pos))
               ELSE /\ ret' = [NoRet EXCEPT !.op = "NewBlockReader", !.alloc = h.alloc]
                    /\ br' = [br EXCEPT !.state = "open", !.version = h.version,
                                        !.roots = h.roots, !.pos = h.pos,
                                        !.offset = LdSize(headerBytes(h.roots, h.version),
                                                          <<>>)]
       IN  open(ReadFromChecked(car, 0, br.opts.MaxAllowedHeaderSize))
    /\ UNCHANGED <<wo, car, puts, wrote, got, notBs>>

\* blockReader.Next
Next ==
    /\ br.state = "open"
    /\ LET return(r, mismatch, ss) ==
               /\ ret' = [op |-> "Next", at |-> br.pos,
                          cid |-> IF r.err = "nil" /\ ~mismatch THEN r.cid ELSE Undef,
                          data |-> IF r.err = "nil" /\ ~mismatch THEN r.data ELSE <<>>,
                          meta |-> <<>>,
                          err |-> IF mismatch THEN "mismatch in content integrity"
                                  ELSE r.err,
                          alloc |-> r.alloc]
               /\ br' = [br EXCEPT !.pos = r.pos,
                                   !.offset = IF r.err = "nil" /\ ~mismatch
                                              THEN @ + UvarintSize(ss) + ss ELSE @]
               /\ got' = IF r.err = "nil" /\ ~mismatch
                         THEN Append(got, [cid |-> r.cid, data |-> r.data]) ELSE got
           verify(r) ==
               return(r,
                      r.err = "nil" /\ ~br.opts.TrustedCAR /\ PrefixSum(r.cid, r.data) # r.cid,
                      Len(r.cid) + Len(r.data))
       IN  verify(ReadSection(Input, br.pos, br.opts.ZeroLengthSectionAsEOF,
                              br.opts.MaxAllowedSectionSize))
    /\ UNCHANGED <<wo, car, puts, wrote, notBs>>

\* cid.CidFromReader over at most l bytes of the input: the CID and the bytes
\* the parse took from the input
CidFromReader(s, pos, l) ==
    LET taken(win, c) ==
            IF c.err = "nil" THEN c
            ELSE [c EXCEPT !.n = IF win = <<>> THEN 0 ELSE IF win[1] # 1 THEN 1
                                 ELSE Len(win)]
        parse(win) == taken(win, CidFromBytes(win))
    IN  parse(SubSeq(s, pos + 1, Min(pos + l, Len(s))))

\* blockReader.SkipNext
SkipNext ==
    /\ br.state = "open"
    /\ LET fail(e, p, end) ==
               /\ ret' = [NoRet EXCEPT !.op = "SkipNext", !.at = br.pos, !.err = e]
               /\ br' = [br EXCEPT !.pos = p, !.readerSize = end]
           done(c, blkSize, sctLen, p, end, off) ==
               /\ ret' = [NoRet EXCEPT !.op = "SkipNext", !.at = br.pos,
                             !.meta = [cid |-> c, offset |-> off, size |-> blkSize]]
               /\ br' = [br EXCEPT !.pos = p, !.readerSize = end, !.offset = off + sctLen]
           seek(c, blkSize, sctLen, end, finalOffset) ==
               IF finalOffset # br.offset + sctLen
               THEN fail("unexpected length", finalOffset, end)
               ELSE IF finalOffset > end THEN fail("ErrUnexpectedEOF", finalOffset, end)
               ELSE done(c, blkSize, sctLen, finalOffset, end, finalOffset - sctLen)
           skip(sz, c, blkSize, sctLen) ==
               IF sz.err # "nil" THEN fail(sz.err, sz.pos, br.readerSize)
               ELSE IF sz.l = 0 THEN fail("invalid cid", sz.pos, br.readerSize)
               ELSE IF c.err # "nil" THEN fail(c.err, sz.pos + c.n, br.readerSize)
               ELSE IF br.seeker /\ br.limit = -1
               THEN seek(c.cid, blkSize, sctLen,
                         IF br.readerSize = -1 THEN Len(Input) ELSE br.readerSize,
                         sz.pos + c.n + blkSize)
               ELSE IF Len(Input) - (sz.pos + c.n) < blkSize
                    THEN fail("ErrUnexpectedEOF", Len(Input), br.readerSize)
                    ELSE done(c.cid, blkSize, sctLen, sz.pos + c.n + blkSize,
                              br.readerSize, br.offset)
           cidOf(sz, c) == skip(sz, c, sz.l - c.n, sz.l + UvarintSize(sz.l))
           sized(sz) == cidOf(sz, CidFromReader(Input, sz.pos, sz.l))
       IN  sized(lengthPrefixedReadSize(Input, br.pos, br.opts.ZeroLengthSectionAsEOF,
                                        br.opts.MaxAllowedSectionSize))
    /\ UNCHANGED <<wo, car, puts, wrote, got, notBs>>

\* the batches of one PutMany
Batches == SeqsUpTo(PutBlocks, MaxBatch) \ {<<>>}

\* putting blocks, then reading the CAR back
WoNext ==
    \/ \E blks \in Batches : PutMany(blks)
    \/ NewBlockReader
    \/ Next

SpecWO == WoInit /\ [][WoNext]_vars

-----------------------------------------------------------------------------
(* The block reader over streams that no writer of this library produced:   *)
(* CARv1 streams of a header and up to MaxSections sections, some of them   *)
(* malformed.  The CARv2 branch of NewBlockReader is outside these inputs.  *)

MaxSections == 2      \* sections of a stream
SmallSection == 7     \* a MaxAllowedSectionSize below the longest section
SmallHeader == 8      \* a MaxAllowedHeaderSize below the longest header

\* a section whose length prefix declares l bytes and whose body is what follows
Declared(l, body) == ToUvarint(l) \o body

\* well-formed sections, a section whose payload is not the one of its CID, a
\* zero-length section, a section that declares more than 8 MiB, a section cut
\* short
Sections ==
    {LdWrite(NewBlock(85, 18, <<10>>).cid, <<10>>),
     LdWrite(NewBlock(113, 18, <<20, 21>>).cid, <<20, 21>>),
     LdWrite(NewBlock(85, 18, <<30, 31, 32>>).cid, <<30, 31, 32>>),
     LdWrite(NewBlock(85, 18, <<10>>).cid, <<11>>),
     <<0>>,
     Declared(8 * 1024 * 1024 + 1, NewBlock(85, 18, <<10>>).cid \o <<10>>),
     Declared(7, <<1, 85, 18>>)}

\* headers of one and of two roots, a header of version 3, a header that
\* declares more than 32 MiB
Headers ==
    {LdWrite(headerBytes(<<NewBlock(113, 18, <<10>>).cid>>, 1), <<>>),
     LdWrite(headerBytes(<<NewBlock(113, 18, <<10>>).cid,
                           NewBlock(85, 18, <<20, 21>>).cid>>, 1), <<>>),
     LdWrite(headerBytes(<<NewBlock(113, 18, <<10>>).cid>>, 3), <<>>),
     Declared(32 * 1024 * 1024 + 1, <<162, 128, 1>>)}

Streams == {h \o Flatten(ss) : h \in Headers, ss \in SeqsUpTo(Sections, MaxSections)}

\* the reader's options: WithTrustedCAR, ZeroLengthSectionAsEOF,
\* MaxAllowedHeaderSize, MaxAllowedSectionSize
ReaderOpts ==
    [TrustedCAR : BOOLEAN, ZeroLengthSectionAsEOF : BOOLEAN,
     MaxAllowedHeaderSize : {SmallHeader, DefaultReaderOpts.MaxAllowedHeaderSize},
     MaxAllowedSectionSize : {SmallSection, DefaultReaderOpts.MaxAllowedSectionSize}]

\* a stream in a bytes.Reader (an io.ReadSeeker) or behind a plain io.Reader
BrInit ==
    /\ car \in Streams
    /\ \E o \in ReaderOpts, seeker \in BOOLEAN : br = NoReader(o, seeker)
    /\ wo = <<>>
    /\ puts = <<>>
    /\ wrote = <<>>
    /\ ret = NoRet
    /\ got = <<>>
    /\ BsDormant

BrNext ==
    \/ NewBlockReader
    \/ Next
    \/ SkipNext

SpecBR == BrInit /\ [][BrNext]_vars

-----------------------------------------------------------------------------
(* The block reader over well-formed CARs: a CARv1, the same payload in a   *)
(* CARv2, in a CARv2 whose payload is padded, and in a CARv2 with an index  *)
(* after the payload.                                                       *)

DataPadding == 5     \* bytes between the CARv2 header and the payload

\* sections whose payload is the one of their CID
GoodSections ==
    {LdWrite(NewBlock(85, 18, <<10>>).cid, <<10>>),
     LdWrite(NewBlock(113, 18, <<20, 21>>).cid, <<20, 21>>),
     LdWrite(NewBlock(85, 18, <<30, 31, 32>>).cid, <<30, 31, 32>>)}

\* CARv1 payloads of one or two roots
V1Payloads ==
    {LdWrite(headerBytes(roots, 1), <<>>) \o Flatten(ss) :
        roots \in WoRoots, ss \in SeqsUpTo(GoodSections, MaxSections)}

\* a CARv2 of the payload p after pad bytes of padding, followed by an index
V2Car(p, pad, index) ==
    LET h == NewV2Header(Len(p))
    IN  V2Pragma
            \o V2HeaderWriteTo([h EXCEPT !.DataOffset = @ + pad,
                                         !.IndexOffset = IF index = <<>> THEN 0 ELSE @ + pad])
            \o [i \in 1..pad |-> 0] \o p \o index

WellFormedCars ==
    V1Payloads
        \cup {V2Car(p, pad, index) : p \in V1Payloads, pad \in {0, DataPadding},
                                     index \in {<<>>, <<4, 1, 2, 3>>}}

\* a well-formed CAR in a bytes.Reader (an io.ReadSeeker) or behind a plain
\* io.Reader
ScanInit ==
    /\ car \in WellFormedCars
    /\ \E trusted, seeker \in BOOLEAN :
           br = NoReader([DefaultReaderOpts EXCEPT !.TrustedCAR = trusted], seeker)
    /\ wo = <<>>
    /\ puts = <<>>
    /\ wrote = <<>>
    /\ ret = NoRet
    /\ got = <<>>
    /\ BsDormant

SpecScan == ScanInit /\ [][BrNext]_vars

-----------------------------------------------------------------------------
(* The CARv2 header as a value: NewV2Header, its modifiers, which take the  *)
(* header by value and return the changed copy, and V2Header.ReadFrom.  The *)
(* v2 package's Header (v2/writer.go) has the same functions under the      *)
(* names NewHeader, WithCarV1Padding, WithIndexPadding and WithCarV1Size.   *)
(* All fields stay far below 2^63.                                          *)

MaxChain == 3        \* calls made on one header, one after another

DataSizes == {0, 1, 20}
Paddings == {0, 1, 7}

\* V2Header.WithIndexPadding
WithIndexPadding(h, padding) == [h EXCEPT !.IndexOffset = @ + padding]

\* V2Header.WithDataPadding
WithDataPadding(h, padding) ==
    [h EXCEPT !.DataOffset = V2PragmaSize + V2HeaderSize + padding,
              !.IndexOffset = @ + padding]

\* V2Header.WithDataSize
WithDataSize(h, size) == [h EXCEPT !.DataSize = size, !.IndexOffset = size + @]

\* the 40 bytes a decoder is given: headers of any writer
EncodedHeaders ==
    {V2HeaderWriteTo([Characteristics |-> 0, DataOffset |-> do, DataSize |-> ds,
                      IndexOffset |-> io]) :
        do \in {50, 51, 60}, ds \in {0, 10}, io \in {0, 1, 61, 70, 300}}

\* header := NewV2Header(dataSize)
HdrInit ==
    /\ \E dataSize \in DataSizes :
           /\ hdr = NewV2Header(dataSize)
           /\ hcall = [n |-> 0, op |-> "NewV2Header", p |-> dataSize, on |-> hdr,
                       after |-> hdr, err |-> "nil"]
    /\ HdrDormant

\* a call of a modifier on the header: the caller's header is copied into the
\* receiver, the result is the header of the chain
Modified(op, p, result) ==
    /\ hcall.n < MaxChain
    /\ hdr' = result
    /\ hcall' = [n |-> hcall.n + 1, op |-> op, p |-> p, on |-> hdr, after |-> hdr,
                 err |-> "nil"]
    /\ UNCHANGED notHdr

\* header = header.WithIndexPadding(padding)
ChainIndexPadding(padding) ==
    Modified("WithIndexPadding", padding, WithIndexPadding(hdr, padding))

\* header = header.WithDataPadding(padding)
ChainDataPadding(padding) ==
    Modified("WithDataPadding", padding, WithDataPadding(hdr, padding))

\* header = header.WithDataSize(size)
ChainDataSize(size) ==
    Modified("WithDataSize", size, WithDataSize(hdr, size))

\* header.ReadFrom(bytes.NewReader(b)): the fields are assigned when the header
\* is accepted
Decode(b) ==
    /\ hcall.n < MaxChain
    /\ LET read(v) ==
               /\ hdr' = IF v.err = "nil" THEN v.h ELSE hdr
               /\ hcall' = [n |-> hcall.n + 1, op |-> "ReadFrom", p |-> 0, on |-> hdr,
                            after |-> hdr', err |-> v.err]
       IN  read(V2HeaderReadFrom(b, 0))
    /\ UNCHANGED notHdr

HdrNext ==
    \/ \E p \in Paddings : ChainIndexPadding(p)
    \/ \E p \in Paddings : ChainDataPadding(p)
    \/ \E size \in DataSizes : ChainDataSize(size)
    \/ \E b \in EncodedHeaders : Decode(b)

SpecHdr == HdrInit /\ [][HdrNext]_vars

-----------------------------------------------------------------------------
(* Opening a CAR with the readers of the v1 package (car.go: ReadHeader,    *)
(* NewCarReader) and with the v3 BlockReader, over headers with and without *)
(* a roots key.  The v1 package decodes the header with cbor.DecodeInto     *)
(* into CarHeader{Roots, Version}: a key the bytes do not have leaves its   *)
(* field at the zero value.  util.LdRead is the length-prefixed read.       *)

\* the header bytes of {version: v}, a map without a roots key
RootlessHeader(v) == <<161, 103, 118, 101, 114, 115, 105, 111, 110, v>>

\* headers {version:1}, {version:3}, {roots:[], version:1} and
\* {roots:[c], version:1}, each followed by well-formed sections, and CARv2s
OpenStreams ==
    {LdWrite(h, <<>>) \o Flatten(ss) :
        h \in {RootlessHeader(1), RootlessHeader(3), headerBytes(<<>>, 1),
               headerBytes(<<NewBlock(113, 18, <<10>>).cid>>, 1)},
        ss \in SeqsUpTo(GoodSections, MaxSections)}
        \cup {V2Car(p, 0, <<>>) : p \in V1Payloads}

\* ReadHeader of the v1 package
ReadHeader(s) ==
    LET failed(d, e) == [ch |-> [Roots |-> <<>>, Version |-> 0], l |-> 0, pos |-> d.pos,
                         err |-> e]
        into(d, h) ==
            IF d.err # "nil" THEN failed(d, d.err)
            ELSE IF ~h.ok THEN failed(d, "cbor: invalid header")
            ELSE [ch |-> [Roots |-> h.roots, Version |-> h.version], l |-> d.pos,
                  pos |-> d.pos, err |-> "nil"]
        decode(d) == into(d, decodeHeader(d.buf))
    IN  decode(lengthPrefixedRead(s, 0, FALSE, DefaultReaderOpts.MaxAllowedSectionSize))

OpenInit ==
    /\ car \in OpenStreams
    /\ \E trusted, seeker \in BOOLEAN :
           br = NoReader([DefaultReaderOpts EXCEPT !.TrustedCAR = trusted], seeker)
    /\ wo = <<>>
    /\ puts = <<>>
    /\ wrote = <<>>
    /\ ret = NoRet
    /\ got = <<>>
    /\ BsDormant

\* ch, l, err := ReadHeader(bufio.NewReader(r)) by a caller of the v1 package
ReadHeaderOnly ==
    /\ br.state = "none"
    /\ LET return(h) ==
               /\ ret' = [NoRet EXCEPT !.op = "ReadHeader", !.err = h.err, !.meta = h.ch]
               /\ br' = [br EXCEPT !.state = "header", !.pos = h.pos]
       IN  return(ReadHeader(car))
    /\ UNCHANGED <<wo, car, puts, wrote, got, notBs>>

\* NewCarReader of the v1 package
NewCarReader ==
    /\ br.state = "none"
    /\ LET fail(h, e) ==
               /\ ret' = [NoRet EXCEPT !.op = "NewCarReader", !.err = e]
               /\ br' = [br EXCEPT !.state = "failed", !.pos = h.pos]
           open(h) ==
               IF h.err # "nil" THEN fail(h, h.err)
               ELSE IF Len(h.ch.Roots) = 0 THEN fail(h, "empty car")
               ELSE IF h.ch.Version # 1 THEN fail(h, "invalid car version")
               ELSE /\ ret' = [NoRet EXCEPT !.op = "NewCarReader"]
                    /\ br' = [br EXCEPT !.state = "CarReader", !.version = h.ch.Version,
                                        !.roots = h.ch.Roots, !.pos = h.pos,
                                        !.offset = h.l]
       IN  open(ReadHeader(car))
    /\ UNCHANGED <<wo, car, puts, wrote, got, notBs>>

OpenNext ==
    \/ ReadHeaderOnly
    \/ NewCarReader
    \/ NewBlockReader
    \/ Next
    \/ SkipNext

SpecOpen == OpenInit /\ [][OpenNext]_vars

-----------------------------------------------------------------------------
(* AllKeysChan of the read-only blockstore: the call reads the header of    *)
(* the payload and starts a goroutine that walks the sections and sends the *)
(* CID of each on a buffered channel; the caller receives from the channel  *)
(* and may cancel its context at any moment.                                *)

KeysChanCap == 5     \* make(chan cid.Cid, 5)

NoChan == [made |-> FALSE, buf |-> <<>>, closed |-> FALSE]
NoScanner == [state |-> "none", offset |-> 0, c |-> Undef]

\* a blockstore over a well-formed CARv1 payload
RoInit ==
    /\ backing \in V1Payloads
    /\ keysCh = NoChan
    /\ ctxDone = FALSE
    /\ scanner = NoScanner
    /\ ranged = [keys |-> <<>>, ended |-> FALSE]
    /\ RoDormant

\* ReadOnlyBlockStore.AllKeysChan up to its return: header, channel, go func()
ReadOnlyAllKeysChan ==
    /\ scanner.state = "none"
    /\ LET start(h) ==
               IF h.err # "nil"
               THEN /\ scanner' = [scanner EXCEPT !.state = "error"]
                    /\ keysCh' = keysCh
               ELSE /\ scanner' = [scanner EXCEPT
                                      !.state = "for",
                                      !.offset = LdSize(headerBytes(h.ch.Roots, h.ch.Version),
                                                        <<>>)]
                    /\ keysCh' = [NoChan EXCEPT !.made = TRUE]
       IN  start(ReadHeader(backing))
    /\ UNCHANGED <<backing, ctxDone, ranged, notRo>>

\* the goroutine from the head of its loop to the select: the length, the CID
\* at the offset after the length, the reader moved to the end of the section
ScanSection ==
    /\ scanner.state = "for"
    /\ LET cidAt(l, thisItemForNxt, c) ==
               IF l.err # "nil" \/ c.err # "nil"
               THEN scanner' = [scanner EXCEPT !.state = "returned"]
               ELSE scanner' = [state |-> "select", offset |-> thisItemForNxt + l.x,
                                c |-> c.cid]
           length(l) ==
               cidAt(l, scanner.offset + l.n,
                     CidFromBytes(Drop(backing, scanner.offset + l.n)))
       IN  length(ReadUvarint(backing, scanner.offset))
    /\ UNCHANGED <<backing, keysCh, ctxDone, ranged, notRo>>

\* select, case ch <- c
SelectSend ==
    /\ scanner.state = "select"
    /\ Len(keysCh.buf) < KeysChanCap
    /\ keysCh' = [keysCh EXCEPT !.buf = Append(@, scanner.c)]
    /\ scanner' = [scanner EXCEPT !.state = "for", !.c = Undef]
    /\ UNCHANGED <<backing, ctxDone, ranged, notRo>>

\* select, case <-done
SelectDone ==
    /\ scanner.state = "select"
    /\ ctxDone
    /\ scanner' = [scanner EXCEPT !.state = "returned", !.c = Undef]
    /\ UNCHANGED <<backing, keysCh, ctxDone, ranged, notRo>>

\* the consumer's for k := range ch: a key, or the end of the range when the
\* channel is closed and drained
Receive ==
    /\ keysCh.made
    /\ ~ranged.ended
    /\ IF keysCh.buf # <<>>
       THEN /\ ranged' = [ranged EXCEPT !.keys = Append(@, Head(keysCh.buf))]
            /\ keysCh' = [keysCh EXCEPT !.buf = Tail(@)]
       ELSE /\ keysCh.closed
            /\ ranged' = [ranged EXCEPT !.ended = TRUE]
            /\ keysCh' = keysCh
    /\ UNCHANGED <<backing, ctxDone, scanner, notRo>>

\* the caller cancels the context
Cancel ==
    /\ keysCh.made
    /\ ~ctxDone
    /\ ctxDone' = TRUE
    /\ UNCHANGED <<backing, keysCh, scanner, ranged, notRo>>

RoNext ==
    \/ ReadOnlyAllKeysChan
    \/ ScanSection
    \/ SelectSend
    \/ SelectDone
    \/ Receive
    \/ Cancel

SpecRo == RoInit /\ [][RoNext]_vars

-----------------------------------------------------------------------------
(* V1Header.Matches over pairs of headers of up to MaxRoots roots           *)

MaxRoots == 3        \* roots of a header

\* V1Header.containsRoot
containsRoot(h, root) == \E i \in 1..Len(h.Roots) : h.Roots[i] = root

\* V1Header.Matches
V1HeaderMatches(h, other) ==
    IF h.Version # other.Version THEN FALSE
    ELSE IF Len(h.Roots) # Len(other.Roots) THEN FALSE
    ELSE IF Len(h.Roots) = 1 THEN h.Roots[1] = other.Roots[1]
    ELSE \A i \in 1..Len(h.Roots) : containsRoot(other, h.Roots[i])

\* headers of version 0 and 1 over two CIDs
V1Headers ==
    [Roots : SeqsUpTo({NewBlock(113, 18, <<10>>).cid, NewBlock(85, 18, <<20, 21>>).cid},
                      MaxRoots),
     Version : {0, 1}]

MatchInit ==
    /\ hdr \in [one : V1Headers, other : V1Headers]
    /\ hcall = [n |-> 0, op |-> "none", forward |-> FALSE, backward |-> FALSE]
    /\ HdrDormant

\* one.Matches(other) and other.Matches(one)
MatchBothWays ==
    /\ hcall.n = 0
    /\ hcall' = [n |-> 1, op |-> "Matches", forward |-> V1HeaderMatches(hdr.one, hdr.other),
                 backward |-> V1HeaderMatches(hdr.other, hdr.one)]
    /\ UNCHANGED <<hdr, notHdr>>

SpecMatch == MatchInit /\ [][MatchBothWays]_vars

-----------------------------------------------------------------------------
(* One WriteOnly blockstore used by several goroutines at once.  PutMany    *)
(* holds wo.mu for writing from its first statement to its return; every    *)
(* Write call of util.LdWrite on the output is a step of its own.  Has and  *)
(* GetSize read the map under the read lock; the goroutine of AllKeysChan   *)
(* holds the read lock while it sends the keys, in the order the map        *)
(* iteration gives them, to a caller that receives them all.                *)

NumThreads == 2     \* goroutines that call the blockstore
MaxCalls == 3       \* calls of all goroutines together

Threads == 1..NumThreads

\* the blocks the goroutines put and ask for: two CIDs of one multihash and an
\* identity CID
ConcBlocks == {NewBlock(113, 18, <<10>>), NewBlock(85, 18, <<10>>), NewBlock(113, 0, <<20, 21>>)}

ConcBatches == SeqsUpTo(ConcBlocks, MaxBatch) \ {<<>>}

\* a lock that is always granted
LockAlways(m) == TRUE

\* sync.RWMutex.Lock succeeds
Lock(m) == m.w = 0 /\ m.r = {}

\* sync.RWMutex.RLock succeeds
RLock(m) == m.w = 0

NoCall == [pc |-> "idle", blks |-> <<>>, buf |-> <<>>, keys |-> {}]

\* CreateWriteOnlyV1(out, roots, opts...), then the goroutines start
ConcInit ==
    /\ wo \in [opts : [BlockstoreAllowDuplicatePuts : BOOLEAN,
                       BlockstoreUseWholeCIDs : BOOLEAN,
                       StoreIdentityCIDs : BOOLEAN,
                       MaxIndexCidSize : {5, 2048}],
               blocks : {<<>>}, err : {"nil"}, roots : {<<NewBlock(113, 18, <<10>>).cid>>},
               calls : {0}]
    /\ car = LdWrite(headerBytes(wo.roots, 1), <<>>)
    /\ puts = <<>>
    /\ wrote = <<>>
    /\ br = NoReader(DefaultReaderOpts, FALSE)
    /\ ret = NoRet
    /\ got = <<>>
    /\ mu = [w |-> 0, r |-> {}]
    /\ thr = [t \in Threads |-> NoCall]
    /\ obs = {}
    /\ BsThDormant

\* PutMany, line 123: the write lock is taken
PutManyLock(t, blks) ==
    /\ thr[t].pc = "idle"
    /\ wo.calls < MaxCalls
    /\ Lock(mu)
    /\ mu' = [mu EXCEPT !.w = t]
    /\ thr' = [thr EXCEPT ![t] = [NoCall EXCEPT !.pc = "loop", !.blks = blks]]
    /\ wo' = [wo EXCEPT !.calls = @ + 1]
    /\ puts' = puts \o blks
    /\ UNCHANGED <<car, wrote, br, ret, got, obs, notBsTh>>

\* PutMany, lines 125-157: the next block is passed over, refused, or its section
\* is begun; after the last block the call returns and the deferred Unlock runs
PutManyLoop(t) ==
    /\ thr[t].pc = "loop"
    /\ IF thr[t].blks = <<>>
       THEN /\ mu' = [mu EXCEPT !.w = 0]
            /\ thr' = [thr EXCEPT ![t] = NoCall]
            /\ UNCHANGED <<wo, wrote>>
       ELSE LET bl == Head(thr[t].blks)
                c == bl.cid
            IN  IF ~wo.opts.StoreIdentityCIDs /\ isIdentity(c)
                THEN /\ thr' = [thr EXCEPT ![t].blks = Tail(@)]
                     /\ UNCHANGED <<mu, wo, wrote>>
                ELSE IF Len(c) > wo.opts.MaxIndexCidSize
                THEN /\ mu' = [mu EXCEPT !.w = 0]
                     /\ thr' = [thr EXCEPT ![t] = NoCall]
                     /\ wo' = [wo EXCEPT !.err = "ErrCidTooLarge"]
                     /\ wrote' = wrote
                ELSE IF /\ ~wo.opts.BlockstoreAllowDuplicatePuts
                        /\ IF wo.opts.BlockstoreUseWholeCIDs THEN hasExact(wo.blocks, c)
                           ELSE Hash(c) \in DOMAIN wo.blocks
                THEN /\ thr' = [thr EXCEPT ![t].blks = Tail(@)]
                     /\ UNCHANGED <<mu, wo, wrote>>
                ELSE /\ thr' = [thr EXCEPT ![t].pc = "write",
                                           ![t].buf = <<ToUvarint(Len(c) + Len(bl.data)),
                                                        c, bl.data>>]
                     /\ wrote' = Append(wrote, bl)
                     /\ UNCHANGED <<mu, wo>>
    /\ UNCHANGED <<car, puts, br, ret, got, obs, notBsTh>>

\* PutMany, lines 158-161: one Write call of util.LdWrite; after the last one the
\* block is entered in the map
PutManyWrite(t) ==
    /\ thr[t].pc = "write"
    /\ car' = car \o Head(thr[t].buf)
    /\ IF Len(thr[t].buf) > 1
       THEN /\ thr' = [thr EXCEPT ![t].buf = Tail(@)]
            /\ wo' = wo
       ELSE LET bl == Head(thr[t].blks)
            IN  /\ thr' = [thr EXCEPT ![t].pc = "loop", ![t].buf = <<>>,
                                      ![t].blks = Tail(@)]
                /\ wo' = [wo EXCEPT !.blocks = (Hash(bl.cid) :>
                                                    [cid |-> bl.cid, size |-> Len(bl.data)])
                                                @@ @]
    /\ UNCHANGED <<mu, puts, wrote, br, ret, got, obs, notBsTh>>

\* WriteOnly.Has: an identity CID that is not to be stored is present at once,
\* any other CID is looked up under the read lock
Has(t, c) ==
    /\ thr[t].pc = "idle"
    /\ wo.calls < MaxCalls
    /\ wo' = [wo EXCEPT !.calls = @ + 1]
    /\ IF ~wo.opts.StoreIdentityCIDs /\ isIdentity(c)
       THEN obs' = obs \cup {[op |-> "Has", cid |-> c]}
       ELSE /\ RLock(mu)
            /\ obs' = IF Hash(c) \in DOMAIN wo.blocks
                      THEN obs \cup {[op |-> "Has", cid |-> c]} ELSE obs
    /\ UNCHANGED <<car, puts, wrote, br, ret, got, mu, thr, notBsTh>>

\* WriteOnly.GetSize: the size of the digest of an identity CID that is not to be
\* stored, the recorded size of any other CID, under the read lock
GetSize(t, c) ==
    /\ thr[t].pc = "idle"
    /\ wo.calls < MaxCalls
    /\ wo' = [wo EXCEPT !.calls = @ + 1]
    /\ IF ~wo.opts.StoreIdentityCIDs /\ isIdentity(c)
       THEN obs' = obs \cup {[op |-> "GetSize", cid |-> c]}
       ELSE /\ RLock(mu)
            /\ obs' = IF Hash(c) \in DOMAIN wo.blocks
                      THEN obs \cup {[op |-> "GetSize", cid |-> c]} ELSE obs
    /\ UNCHANGED <<car, puts, wrote, br, ret, got, mu, thr, notBsTh>>

\* WriteOnly.AllKeysChan: the goroutine takes the read lock
AllKeysChan(t) ==
    /\ thr[t].pc = "idle"
    /\ wo.calls < MaxCalls
    /\ RLock(mu)
    /\ wo' = [wo EXCEPT !.calls = @ + 1]
    /\ mu' = [mu EXCEPT !.r = @ \cup {t}]
    /\ thr' = [thr EXCEPT ![t] = [NoCall EXCEPT !.pc = "keys",
                                          !.keys = {wo.blocks[h].cid : h \in DOMAIN wo.blocks}]]
    /\ UNCHANGED <<car, puts, wrote, br, ret, got, obs, notBsTh>>

\* the goroutine sends a key and the caller receives it
AllKeysChanSend(t) ==
    /\ thr[t].pc = "keys"
    /\ \E c \in thr[t].keys :
           /\ thr' = [thr EXCEPT ![t].keys = @ \ {c}]
           /\ obs' = obs \cup {[op |-> "AllKeysChan", cid |-> c]}
    /\ UNCHANGED <<wo, car, puts, wrote, br, ret, got, mu, notBsTh>>

\* the goroutine closes the channel and releases the read lock
AllKeysChanClose(t) ==
    /\ thr[t].pc = "keys"
    /\ thr[t].keys = {}
    /\ mu' = [mu EXCEPT !.r = @ \ {t}]
    /\ thr' = [thr EXCEPT ![t] = NoCall]
    /\ UNCHANGED <<wo, car, puts, wrote, br, ret, got, obs, notBsTh>>

ConcNext ==
    \E t \in Threads :
        \/ \E blks \in ConcBatches : PutManyLock(t, blks)
        \/ PutManyLoop(t)
        \/ PutManyWrite(t)
        \/ \E b \in ConcBlocks : Has(t, b.cid)
        \/ \E b \in ConcBlocks : GetSize(t, b.cid)
        \/ AllKeysChan(t)
        \/ AllKeysChanSend(t)
        \/ AllKeysChanClose(t)

SpecConc == ConcInit /\ [][ConcNext]_vars

-----------------------------------------------------------------------------
(* DeferredCarWriter (part_008): a write-only CAR whose output is created   *)
(* and begun by the first Put.  The writer it defers, carstorage.NewWritable *)
(* with WriteAsCarV1, is the writable store of the format description: a v1 *)
(* header at opening, one section per block that is neither passed over nor *)
(* a duplicate.  A nil putCb slice and an empty one are the same sequence.  *)

MaxDcwOps == 5      \* calls made on one DeferredCarWriter
MaxCbs == 3         \* callbacks registered with OnPut

\* the blocks put: two blocks of different length and an identity block
DcwBlocks == {NewBlock(85, 18, <<10>>), NewBlock(85, 18, <<11, 12>>), NewBlock(85, 0, <<20, 21>>)}

DcwRoots == <<NewBlock(85, 18, <<10>>).cid>>

Nil == "nil"

\* dcw.w before the first Put: a nil interface
NilWritable == [set |-> FALSE, idx |-> <<>>]

\* carstorage.NewWritable(outStream, roots, WriteAsCarV1(true), opts...): the v1
\* header is written, the insertion index is empty
NewWritable(roots) ==
    [w |-> [set |-> TRUE, idx |-> <<>>], bytes |-> LdWrite(headerBytes(roots, 1), <<>>)]

\* WritableCar.Has(key): the insertion index is consulted
StorageHas(o, wr, c) ==
    IF o.BlockstoreUseWholeCIDs THEN \E i \in 1..Len(wr.idx) : wr.idx[i] = c
    ELSE \E i \in 1..Len(wr.idx) : Hash(wr.idx[i]) = Hash(c)

\* WritableCar.Put(key, content): the bytes appended to the output and the
\* writer after it
StoragePut(o, wr, b) ==
    IF ~o.StoreIdentityCIDs /\ isIdentity(b.cid)
    THEN [w |-> wr, bytes |-> <<>>, err |-> "nil"]
    ELSE IF Len(b.cid) > o.MaxIndexCidSize
    THEN [w |-> wr, bytes |-> <<>>, err |-> "ErrCidTooLarge"]
    ELSE IF ~o.BlockstoreAllowDuplicatePuts /\ StorageHas(o, wr, b.cid)
    THEN [w |-> wr, bytes |-> <<>>, err |-> "nil"]
    ELSE [w |-> [wr EXCEPT !.idx = Append(@, b.cid)],
          bytes |-> LdWrite(b.cid, b.data), err |-> "nil"]

\* line 116: append(dcw.putCb[:i], dcw.putCb[i+1:]...), i counted from 1
RemoveAt(s, i) == SubSeq(s, 1, i - 1) \o SubSeq(s, i + 1, Len(s))

\* the loop without its line 117
StepBackNot(i) == i

\* line 117: i--
StepBack(i) == i - 1

RECURSIVE callCbs(_, _, _)
\* Put, lines 112-119: every callback from the i-th on is called, those wanted
\* once are removed; called lists the callbacks called, in order
callCbs(putCb, i, called) ==
    IF i > Len(putCb) THEN [putCb |-> putCb, called |-> called]
    ELSE IF putCb[i].once
    THEN callCbs(RemoveAt(putCb, i), StepBack(i) + 1, Append(called, putCb[i].id))
    ELSE callCbs(putCb, i + 1, Append(called, putCb[i].id))

\* the output is opened for the writer d: for a path the file is created and
\* truncated, then carstorage.NewWritable begins the CAR
open(d, s) ==
    LET nw == NewWritable(d.roots)
    IN  [dcw |-> [d EXCEPT !.w = nw.w, !.f = IF d.outStream THEN @ ELSE "open"],
         sink |-> [exists |-> TRUE,
                   bytes |-> (IF d.outStream THEN s.bytes ELSE <<>>) \o nw.bytes]]

\* a writer() that opens the output at every call
writerAnew(d, s) == open(d, s)

\* DeferredCarWriter.writer(): the writer, opened at the first call
writer(d, s) ==
    IF d.w.set THEN [dcw |-> d, sink |-> s] ELSE open(d, s)

\* callbacks registered so far
Registered == {i \in 1..Len(log) : log[i].ev = "OnPut"}

\* Puts made so far
PutsMade == {i \in 1..Len(log) : log[i].ev = "Put"}

NoEvent == [ev |-> "", id |-> 0, once |-> FALSE, key |-> <<>>, data |-> <<>>, n |-> 0, put |-> 0,
            at |-> 0, from |-> 0, to |-> 0, res |-> FALSE, err |-> "nil", opened |-> FALSE]

\* the callbacks of a Put as events: each is handed the length of the content while
\* the output has the bytes it had before the Put
CbEvents(called, b, s, k) ==
    [j \in 1..Len(called) |->
        [NoEvent EXCEPT !.ev = "cb", !.id = called[j], !.n = Len(b.data), !.put = k,
                        !.at = IF s.exists THEN Len(s.bytes) ELSE 0 - 1]]

\* NewDeferredCarWriterForPath / NewDeferredCarWriterForStream
DcwInit ==
    /\ dcw \in [roots : {DcwRoots}, outStream : BOOLEAN, f : {Nil}, w : {NilWritable},
                putCb : {<<>>}, closed : {FALSE}, calls : {0},
                opts : [StoreIdentityCIDs : BOOLEAN,
                        BlockstoreAllowDuplicatePuts : BOOLEAN,
                        BlockstoreUseWholeCIDs : {FALSE},
                        MaxIndexCidSize : {2048}]]
    /\ sink = [exists |-> dcw.outStream, bytes |-> <<>>]
    /\ log = <<>>
    /\ DcwDormant

\* DeferredCarWriter.OnPut(cb, once)
OnPut(once) ==
    /\ ~dcw.closed
    /\ dcw.calls < MaxDcwOps
    /\ Cardinality(Registered) < MaxCbs
    /\ LET id == Cardinality(Registered) + 1
       IN  /\ dcw' = [dcw EXCEPT !.putCb = Append(@, [id |-> id, once |-> once]),
                                 !.calls = @ + 1]
           /\ log' = Append(log, [NoEvent EXCEPT !.ev = "OnPut", !.id = id, !.once = once])
    /\ UNCHANGED <<sink, notDcw>>

\* DeferredCarWriter.Has(key)
DeferredHas(c) ==
    /\ ~dcw.closed
    /\ dcw.calls < MaxDcwOps
    /\ log' = Append(log, [NoEvent EXCEPT !.ev = "Has", !.key = c,
                              !.res = IF ~dcw.w.set THEN FALSE
                                      ELSE StorageHas(dcw.opts, dcw.w, c)])
    /\ dcw' = [dcw EXCEPT !.calls = @ + 1]
    /\ UNCHANGED <<sink, notDcw>>

\* DeferredCarWriter.Put(key, content)
DeferredPut(b) ==
    /\ ~dcw.closed
    /\ dcw.calls < MaxDcwOps
    /\ LET k == Cardinality(PutsMade) + 1
           cbs == callCbs(dcw.putCb, 1, <<>>)
           wd == writer([dcw EXCEPT !.putCb = cbs.putCb], sink)
           p == StoragePut(dcw.opts, wd.dcw.w, b)
       IN  /\ dcw' = [wd.dcw EXCEPT !.w = p.w, !.calls = @ + 1]
           /\ sink' = [wd.sink EXCEPT !.bytes = @ \o p.bytes]
           /\ log' = log \o CbEvents(cbs.called, b, sink, k)
                         \o <<[NoEvent EXCEPT !.ev = "Put", !.key = b.cid, !.data = b.data, !.n = Len(b.data),
                                              !.put = k, !.opened = ~dcw.w.set,
                                              !.from = Len(wd.sink.bytes),
                                              !.to = Len(wd.sink.bytes) + Len(p.bytes),
                                              !.err = p.err]>>
    /\ UNCHANGED notDcw

\* DeferredCarWriter.Close(): Finalize of the writer, a nil interface before the
\* first Put, then the file is closed
DeferredClose ==
    /\ ~dcw.closed
    /\ dcw.calls < MaxDcwOps
    /\ dcw' = [dcw EXCEPT !.closed = TRUE, !.calls = @ + 1, !.f = IF dcw.w.set /\ @ # Nil THEN "closed" ELSE @]
    /\ log' = Append(log, [NoEvent EXCEPT !.ev = "Close",
                              !.err = IF ~dcw.w.set THEN "panic" ELSE "nil"])
    /\ UNCHANGED <<sink, notDcw>>

DcwNext ==
    \/ \E once \in BOOLEAN : OnPut(once)
    \/ \E b \in DcwBlocks : DeferredHas(b.cid)
    \/ \E b \in DcwBlocks : DeferredPut(b)
    \/ DeferredClose

SpecDcw == DcwInit /\ [][DcwNext]_vars

-----------------------------------------------------------------------------
(* One DeferredCarWriter used by several goroutines at once.  Has, Put and  *)
(* Close hold dcw.lk from their first statement to their return; OnPut      *)
(* takes no lock: its read of dcw.putCb (lines 81-84) and its store of the  *)
(* longer slice (line 84) are steps of their own, and so is every turn of   *)
(* the callback loop of Put.                                                *)

\* the writer is shared, no call has been made
DcwConcInit ==
    /\ dcw \in [roots : {DcwRoots}, outStream : BOOLEAN, f : {Nil}, w : {NilWritable},
                putCb : {<<>>}, closed : {FALSE}, calls : {0},
                opts : [StoreIdentityCIDs : {FALSE},
                        BlockstoreAllowDuplicatePuts : {FALSE},
                        BlockstoreUseWholeCIDs : {FALSE},
                        MaxIndexCidSize : {2048}]]
    /\ sink = [exists |-> dcw.outStream, bytes |-> <<>>]
    /\ log = <<>>
    /\ mu = [w |-> 0, r |-> {}]
    /\ thr = [t \in Threads |-> [pc |-> "idle", cb |-> [id |-> 0, once |-> FALSE],
                                 seen |-> <<>>, b |-> <<>>, i |-> 0, k |-> 0]]
    /\ obs = {}
    /\ DcwThDormant

\* OnPut, lines 81-84: dcw.putCb is read
OnPutLoad(t, once) ==
    /\ thr[t].pc = "idle"
    /\ ~dcw.closed
    /\ dcw.calls < MaxCalls
    /\ dcw' = [dcw EXCEPT !.calls = @ + 1]
    /\ thr' = [thr EXCEPT ![t].pc = "append", ![t].seen = dcw.putCb,
                          ![t].cb = [id |-> dcw.calls + 1, once |-> once]]
    /\ UNCHANGED <<sink, log, mu, obs, notDcwTh>>

\* OnPut, line 84: the slice read, one callback longer, is stored and OnPut returns
OnPutStore(t) ==
    /\ thr[t].pc = "append"
    /\ dcw' = [dcw EXCEPT !.putCb = Append(thr[t].seen, thr[t].cb)]
    /\ log' = Append(log, [NoEvent EXCEPT !.ev = "OnPut", !.id = thr[t].cb.id,
                                          !.once = thr[t].cb.once])
    /\ thr' = [thr EXCEPT ![t].pc = "idle"]
    /\ UNCHANGED <<sink, mu, obs, notDcwTh>>

\* Put, line 107: the lock is taken
PutEnter(t, b) ==
    /\ thr[t].pc = "idle"
    /\ ~dcw.closed
    /\ dcw.calls < MaxCalls
    /\ Lock(mu)
    /\ mu' = [mu EXCEPT !.w = t]
    /\ dcw' = [dcw EXCEPT !.calls = @ + 1]
    /\ thr' = [thr EXCEPT ![t].pc = "cbs", ![t].b = b, ![t].i = 1,
                          ![t].k = Cardinality(PutsMade) + 1]
    /\ UNCHANGED <<sink, log, obs, notDcwTh>>

\* Put, lines 112-119: one turn of the loop over the callbacks
PutCallback(t) ==
    /\ thr[t].pc = "cbs"
    /\ LET i == thr[t].i
       IN  IF i > Len(dcw.putCb)
           THEN /\ thr' = [thr EXCEPT ![t].pc = "write"]
                /\ UNCHANGED <<dcw, log>>
           ELSE /\ log' = log \o CbEvents(<<dcw.putCb[i].id>>, thr[t].b, sink, thr[t].k)
                /\ IF dcw.putCb[i].once
                   THEN /\ dcw' = [dcw EXCEPT !.putCb = RemoveAt(@, i)]
                        /\ thr' = [thr EXCEPT ![t].i = StepBack(i) + 1]
                   ELSE /\ dcw' = dcw
                        /\ thr' = [thr EXCEPT ![t].i = i + 1]
    /\ UNCHANGED <<sink, mu, obs, notDcwTh>>

\* Put, lines 123-128: the writer is opened if need be, the block is written, the
\* lock is released
PutFinish(t) ==
    /\ thr[t].pc = "write"
    /\ LET b == thr[t].b
           wd == writer(dcw, sink)
           p == StoragePut(dcw.opts, wd.dcw.w, b)
       IN  /\ dcw' = [wd.dcw EXCEPT !.w = p.w]
           /\ sink' = [wd.sink EXCEPT !.bytes = @ \o p.bytes]
           /\ log' = Append(log, [NoEvent EXCEPT !.ev = "Put", !.key = b.cid,
                                     !.data = b.data, !.n = Len(b.data), !.put = thr[t].k,
                                     !.opened = ~dcw.w.set,
                                     !.from = Len(wd.sink.bytes),
                                     !.to = Len(wd.sink.bytes) + Len(p.bytes),
                                     !.err = p.err])
    /\ mu' = [mu EXCEPT !.w = 0]
    /\ thr' = [thr EXCEPT ![t].pc = "idle"]
    /\ UNCHANGED <<obs, notDcwTh>>

\* Has, from lock to unlock
HasLocked(t, c) ==
    /\ thr[t].pc = "idle"
    /\ ~dcw.closed
    /\ dcw.calls < MaxCalls
    /\ Lock(mu)
    /\ dcw' = [dcw EXCEPT !.calls = @ + 1]
    /\ log' = Append(log, [NoEvent EXCEPT !.ev = "Has", !.key = c,
                              !.res = IF ~dcw.w.set THEN FALSE
                                      ELSE StorageHas(dcw.opts, dcw.w, c)])
    /\ UNCHANGED <<sink, mu, thr, obs, notDcwTh>>

\* Close, from lock to unlock
CloseLocked(t) ==
    /\ thr[t].pc = "idle"
    /\ ~dcw.closed
    /\ dcw.calls < MaxCalls
    /\ Lock(mu)
    /\ dcw' = [dcw EXCEPT !.closed = TRUE, !.calls = @ + 1,
                          !.f = IF dcw.w.set /\ @ # Nil THEN "closed" ELSE @]
    /\ log' = Append(log, [NoEvent EXCEPT !.ev = "Close",
                              !.err = IF ~dcw.w.set THEN "panic" ELSE "nil"])
    /\ UNCHANGED <<sink, mu, thr, obs, notDcwTh>>

DcwConcNext ==
    \E t \in Threads :
        \/ \E once \in BOOLEAN : OnPutLoad(t, once)
        \/ OnPutStore(t)
        \/ \E b \in DcwBlocks : PutEnter(t, b)
        \/ PutCallback(t)
        \/ PutFinish(t)
        \/ \E b \in DcwBlocks : HasLocked(t, b.cid)
        \/ CloseLocked(t)

SpecDcwConc == DcwConcInit /\ [][DcwConcNext]_vars

-----
Distinct(seq, f(_)) ==
    \A i, j \in 1..Len(seq) : f(seq[i]) = f(seq[j]) => i = j

CidOf(b) == b.cid
HashOf(b) == Hash(b.cid)

\* the reader has returned the roots of the header, then exactly the blocks put,
\* then EOF; before that it has returned a prefix of them and no error
ReadsBack ==
    /\ br.roots = wo.roots
    /\ Len(got) <= Len(puts)
    /\ got = SubSeq(puts, 1, Len(got))
    /\ (ret.op = "Next" /\ ret.err # "nil") => (ret.err = "EOF" /\ got = puts)

\* C2 as stated: every sequence of blocks with unique CIDs put into a write-only
\* v1 writer is read back by a block reader: roots, the blocks in order, EOF
RoundTripV1 ==
    (br.state = "open" /\ Distinct(puts, CidOf)) => ReadsBack

\* the blocks the blockstore's options let it store: identity CIDs only with
\* StoreIdentityCIDs, CIDs within MaxIndexCidSize, and multihashes that differ
\* when the blockstore deduplicates by multihash
Storable ==
    /\ \A i \in 1..Len(puts) :
          /\ wo.opts.StoreIdentityCIDs \/ ~isIdentity(puts[i].cid)
          /\ Len(puts[i].cid) <= wo.opts.MaxIndexCidSize
    /\ \/ wo.opts.BlockstoreAllowDuplicatePuts
       \/ wo.opts.BlockstoreUseWholeCIDs
       \/ Distinct(puts, HashOf)

\* C2 amended: every sequence of blocks with unique CIDs that the options let the
\* blockstore store is read back by a block reader: roots, the blocks in order, EOF
RoundTripV1Storable ==
    (br.state = "open" /\ Distinct(puts, CidOf) /\ Storable) => ReadsBack

\* three blocks, two of them with one multihash under two codecs and one with an
\* identity CID, have been put under deduplication by whole CID and read to EOF
RoundTripV1Witness ==
    /\ br.state = "open"
    /\ Len(puts) = MaxPuts
    /\ Distinct(puts, CidOf)
    /\ ~Distinct(puts, HashOf)
    /\ \E i \in 1..Len(puts) : isIdentity(puts[i].cid)
    /\ Storable
    /\ ~wo.opts.BlockstoreAllowDuplicatePuts
    /\ ret.op = "Next"
    /\ ret.err = "EOF"
    /\ got = puts

\* C3: without BlockstoreAllowDuplicatePuts each distinct CID (with
\* BlockstoreUseWholeCIDs) or each distinct multihash (without) occupies at most
\* one section of the output
DedupOneSection ==
    ~wo.opts.BlockstoreAllowDuplicatePuts =>
        IF wo.opts.BlockstoreUseWholeCIDs THEN Distinct(wrote, CidOf)
        ELSE Distinct(wrote, HashOf)

\* the section that starts where the last call started reading
SectionAt == ReadSection(car, ret.at, br.opts.ZeroLengthSectionAsEOF,
                         br.opts.MaxAllowedSectionSize)

\* the payload hashes, under the hash function of the CID, to the CID's multihash
Matches(c, data) == Drop(c, 4) = Digest(c[3], data)

\* C4: an untrusted reader's Next returns a block only if the payload hashes to the
\* CID's multihash, and fails with the integrity mismatch, returning no block, on
\* a section whose payload does not match; a trusted reader's Next returns the
\* section as stored
NextIntegrity ==
    ret.op = "Next" =>
        IF br.opts.TrustedCAR
        THEN SectionAt.err = "nil" =>
                 /\ ret.err = "nil"
                 /\ ret.cid = SectionAt.cid
                 /\ ret.data = SectionAt.data
        ELSE /\ ret.err = "nil" => (ret.cid # Undef /\ Matches(ret.cid, ret.data))
             /\ (SectionAt.err = "nil" /\ ~Matches(SectionAt.cid, SectionAt.data)) =>
                 /\ ret.err = "mismatch in content integrity"
                 /\ ret.cid = Undef
                 /\ ret.data = <<>>
                 /\ \A i \in 1..Len(got) : Matches(got[i].cid, got[i].data)

\* an untrusted reader has failed on a section whose payload is not its CID's
NextIntegrityWitness ==
    /\ ret.op = "Next"
    /\ ~br.opts.TrustedCAR
    /\ SectionAt.err = "nil"
    /\ ~Matches(SectionAt.cid, SectionAt.data)
    /\ ret.err = "mismatch in content integrity"
    /\ Len(got) = 1

\* a trusted reader has returned a section whose payload is not its CID's
NextTrustedWitness ==
    /\ ret.op = "Next"
    /\ br.opts.TrustedCAR
    /\ ret.err = "nil"
    /\ ~Matches(ret.cid, ret.data)

\* the length the prefix at the start of the last read declares
DeclaredAt == ReadUvarint(car, ret.at)

\* C7: a section that declares more than MaxAllowedSectionSize is rejected with
\* ErrSectionTooLarge by Next and by SkipNext, a header that declares more than
\* MaxAllowedHeaderSize with ErrHeaderTooLarge by NewBlockReader, and no buffer
\* has been allocated when the error is returned
SizeLimitsHold ==
    /\ (/\ ret.op \in {"Next", "SkipNext"}
        /\ DeclaredAt.err = "nil"
        /\ DeclaredAt.x > br.opts.MaxAllowedSectionSize) =>
           (ret.err = "ErrSectionTooLarge" /\ ret.alloc = <<>>)
    /\ (/\ ret.op = "NewBlockReader"
        /\ DeclaredAt.err = "nil"
        /\ DeclaredAt.x > br.opts.MaxAllowedHeaderSize) =>
           (ret.err = "ErrHeaderTooLarge" /\ ret.alloc = <<>>)
    /\ \A i \in 1..Len(ret.alloc) :
           ret.alloc[i] <= IF ret.op = "NewBlockReader" THEN br.opts.MaxAllowedHeaderSize
                           ELSE br.opts.MaxAllowedSectionSize

\* SkipNext has met, after a section it skipped, a section that declares more than
\* the default limit
SizeLimitsWitness ==
    /\ ret.op = "SkipNext"
    /\ ret.at > Len(car) - 12
    /\ DeclaredAt.err = "nil"
    /\ DeclaredAt.x > DefaultReaderOpts.MaxAllowedSectionSize
    /\ br.opts.MaxAllowedSectionSize = DefaultReaderOpts.MaxAllowedSectionSize
    /\ ret.err = "ErrSectionTooLarge"

\* C5: the payload size the counting facade computes in NewSelectiveWriter is the
\* number of section bytes the teeing facade writes in WriteV1 for the same
\* traversal
CountingEqualsTeeing ==
    (call.tee /\ call.pc = "done" /\ call.skip = 0) =>
        /\ tc.size - HeaderSize(Root) = Len(w) - HeaderSize(Root)
        /\ call.err = "nil"

RECURSIVE CidsIn(_, _)
\* the CIDs of the sections of s that follow pos
CidsIn(s, pos) ==
    LET cons(r) == IF r.err # "nil" THEN <<>> ELSE <<r.cid>> \o CidsIn(s, r.pos)
    IN  IF pos >= Len(s) THEN <<>>
        ELSE cons(ReadSection(s, pos, FALSE, DefaultReaderOpts.MaxAllowedSectionSize))

Same(c) == c

\* no CID has two sections in the output of a WriteV1 that skips nothing
NoSectionTwice ==
    (call.tee /\ call.skip = 0) => Distinct(CidsIn(w, HeaderSize(Root)), Same)

\* a load of a block the teeing facade has recorded leaves the output, the
\* recorded size and the remaining skip count as they were
RepeatedLoadIsSilent ==
    (/\ call.tee
     /\ Len(loads') = Len(loads) + 1
     /\ loads'[Len(loads')].l \in DOMAIN iw.rcrds) =>
        /\ w' = w
        /\ iw'.size = iw.size
        /\ iw'.toSkip = iw.toSkip

\* C6: in one traversal each block is written at most once, and a repeated load
\* of a written block adds no bytes and changes neither the recorded size nor the
\* remaining skip count
TeeWritesOnce == []NoSectionTwice /\ [][RepeatedLoadIsSilent]_vars

\* C8: whatever Write calls came before, a Write that succeeds from offset k has
\* emitted exactly the bytes of the full CAR from k on
OffsetWriteIsSuffix ==
    (wcall.n > 0 /\ wcall.err = "nil") => wcall.out = Drop(FullCar, wcall.offset)

\* a third Write, on a writer whose cache holds some but not all of the blocks,
\* has started inside a block
OffsetWriteWitness ==
    /\ wcall.n = MaxWrites
    /\ wcall.err = "nil"
    /\ wcall.cached # {}
    /\ wcall.cached # DOMAIN cow.blockInfos
    /\ wcall.out # <<>>
    /\ \E c \in DOMAIN cow.blockInfos :
          /\ cow.blockInfos[c].offset < wcall.offset
          /\ wcall.offset < cow.blockInfos[c].offset + cow.blockInfos[c].size

\* C9: a successful Seek returns the position the io.Seeker rules give it, and the
\* Reads that follow deliver the writer's complete output from that position on,
\* up to EOF
SeekContract ==
    usr.seek.ok =>
        /\ usr.seek.ret = usr.seek.want
        /\ Len(usr.since) <= Len(Drop(Full, usr.seek.want))
        /\ usr.since = SubSeq(Drop(Full, usr.seek.want), 1, Len(usr.since))
        /\ usr.eof => usr.since = Drop(Full, usr.seek.want)


\* the end of the bytes the first run recorded under path p
SubtreeEnd(p) ==
    LET ends == {full.loads[j].end : j \in {i \in 1..Len(full.loads) :
                                             IsPrefix(p, full.loads[i].path)}}
    IN  IF ends = {} THEN Invalid ELSE CHOOSE e \in ends : \A f \in ends : f <= e

\* the walk is the re-run that follows RewindToOffset(call.skip)
Rerun == full.set /\ call.rewinds > 0

\* the resumer loads normally only once the counter has reached the offset
ReplayUntilOffset == (Rerun /\ ts.rewindOffsetTarget = 0) => ts.lsCounter >= call.skip

\* no load of the re-run lies in a subtree recorded wholly before the offset
NoLoadBeforeOffset ==
    Rerun => \A i \in 1..Len(loads) :
                 SubtreeEnd(loads[i].path) = Invalid \/ SubtreeEnd(loads[i].path) > call.skip

\* the completed re-run has loaded every block that ends after the offset
LoadedFromOffset ==
    (Rerun /\ call.pc = "done") =>
        \A j \in 1..Len(full.loads) :
            full.loads[j].end > call.skip =>
                \E i \in 1..Len(loads) : loads[i].path = full.loads[j].path

\* C10: after a completed traversal, RewindToOffset(k) and a re-run of the traversal
\* replay until the counter has reached k, descend into no subtree recorded wholly
\* before k and load again every block whose section overlaps or follows k
ResumeByOffsetContract == ReplayUntilOffset /\ NoLoadBeforeOffset /\ LoadedFromOffset


RECURSIVE RefWalk(_, _, _, _)
\* the loads of a walk through a link system that no resumer wraps: the links
\* still to visit and the links seen so far
RefWalk(d, once, pending, seen) ==
    IF pending = <<>> THEN <<>>
    ELSE LET h == Head(pending) IN
         IF once /\ h.l \in seen THEN RefWalk(d, once, Tail(pending), seen)
         ELSE <<[path |-> h.path, l |-> h.l]>> \o
              RefWalk(d, once, ChildLinks(d, h.path, h.l) \o Tail(pending),
                      IF once THEN seen \cup {h.l} ELSE seen)

RECURSIVE OnTheWay(_, _)
\* the loads of a sequence whose path does not diverge from the target, in order
OnTheWay(seq, target) ==
    IF seq = <<>> THEN <<>>
    ELSE (IF Divergence(Head(seq).path, target) = 0 THEN <<Head(seq)>> ELSE <<>>) \o
         OnTheWay(Tail(seq), target)

\* the walk is the re-run that follows RewindToPath(call.target.path)
PathRerun == full.set /\ call.rewinds > 0 /\ call.target.set

\* what the re-run is to load: the blocks on the way to the target, the block at
\* the target and every block a plain walk loads after it
PathExpected ==
    LET ref == RefWalk(dag, LinkVisitOnlyOnce, ChildLinks(dag, <<>>, Root), {})
        at == {i \in 1..Len(ref) : ref[i].path = call.target.path}
        first == IF at = {} THEN Len(ref) + 1 ELSE CHOOSE i \in at : \A j \in at : i <= j
    IN  OnTheWay(SubSeq(ref, 1, first - 1), call.target.path) \o SubSeq(ref, first, Len(ref))

\* the completed re-run has loaded the way to the target and all from the target on
LoadsFromTarget ==
    (PathRerun /\ call.pc = "done") =>
        [i \in 1..Len(loads) |-> [path |-> loads[i].path, l |-> loads[i].l]] = PathExpected

\* the target is still set exactly as long as no load was at the target
TargetClearedAtLoad ==
    PathRerun =>
        (ts.rewindPathTarget.set <=>
            \A i \in 1..Len(loads) : loads[i].path # call.target.path)

\* a link system call for a link that diverges from the target, made before the
\* target is reached, loads nothing and marks the links recorded under the link seen
DivergingSkipped ==
    (/\ PathRerun
     /\ call.pc = "walk"
     /\ ts.rewindPathTarget.set
     /\ todo # <<>>
     /\ todo' # todo
     /\ ~(LinkVisitOnlyOnce /\ Head(todo).l \in progress.SeenLinks)
     /\ Divergence(Head(todo).path, call.target.path) # 0) =>
        /\ loads' = loads
        /\ GetLinks(ts.pathTree, Head(todo).path) \subseteq progress'.SeenLinks

\* C11: after RewindToPath(p) the re-run skips every link that diverges from p,
\* marking the links recorded under it seen, until a load at exactly p clears the
\* target; that block and every block after it are loaded as in a plain walk, also
\* when the first run was ended early
ResumeByPathContract ==
    [](LoadsFromTarget /\ TargetClearedAtLoad) /\ [][DivergingSkipped]_vars


\* the paths asked of the tree: up to two segments out of the keys and the indices
QueryPaths == SeqsUpTo({<<48>>, <<49>>, <<48, 47, 48>>}, MaxLinks)

\* the tree is the one the first walk has built, and the resumer has been rewound
TreeOfFirstWalk == PathRerun /\ ts.rewindPathTarget.set

\* a recorded path gets the counter position that follows everything loaded under it
OffsetAfterRecorded ==
    TreeOfFirstWalk =>
        \A q \in (QueryPaths \cap DOMAIN ts.pathTree) \ {<<>>} :
            OffsetOrPending(ts, q) = SubtreeEnd(q)

\* a path the tree does not hold gets Invalid
OffsetAfterUnknown ==
    TreeOfFirstWalk =>
        \A q \in QueryPaths \ DOMAIN ts.pathTree :
            GetOffsetAfter(ts.pathTree, q) = Invalid

\* C12: GetOffsetAfter of a recorded path is the counter position of the first byte
\* beyond everything loaded under the path, with the pending block start standing in
\* for Invalid; GetOffsetAfter of a path unknown to the tree is Invalid
OffsetAfterContract == OffsetAfterRecorded /\ OffsetAfterUnknown


\* the sections of the blocks whose writing has begun, in that order
SectionsBegun == Flatten([i \in 1..Len(wrote) |-> LdWrite(wrote[i].cid, wrote[i].data)])

\* the output is the header and whole sections, the last of them still being
\* written if a PutMany is between two Write calls
WholeSections ==
    LET whole == LdWrite(headerBytes(wo.roots, 1), <<>>) \o SectionsBegun
    IN  /\ Len(car) <= Len(whole)
        /\ car = SubSeq(whole, 1, Len(car))
        /\ (\A t \in Threads : thr[t].pc # "write") => car = whole

\* the multihashes of the whole sections of the output
WrittenHashes ==
    LET cids == CidsIn(car, Len(LdWrite(headerBytes(wo.roots, 1), <<>>)))
    IN  {Hash(cids[i]) : i \in 1..Len(cids)}

\* every block reported so far has a whole section in the output
ReportedAfterWritten ==
    \A o \in obs :
        Hash(o.cid) \in WrittenHashes

\* every block reported so far has a whole section in the output, unless it is an
\* identity CID in a blockstore that does not store identity CIDs
ReportedAfterWrittenOrIdentity ==
    \A o \in obs :
        \/ ~wo.opts.StoreIdentityCIDs /\ isIdentity(o.cid)
        \/ Hash(o.cid) \in WrittenHashes

WrittenCids == {wrote[i].cid : i \in 1..Len(wrote)}

\* C14: the keys AllKeysChan sets out to deliver after successful Puts are
\* exactly the CIDs whose sections were written, two CIDs of one multihash
\* included
AllKeysAreWrittenCids ==
    [][\A t \in Threads :
           (thr[t].pc = "idle" /\ thr'[t].pc = "keys" /\ wo.err = "nil")
               => thr'[t].keys = WrittenCids]_vars


\* the events of the log that are Puts, in order
PutEvents == SelectSeq(log, LAMBDA e : e.ev = "Put")

RECURSIVE SectionsOf(_)
\* the sections of a sequence of Puts
SectionsOf(ps) ==
    IF ps = <<>> THEN <<>> ELSE LdWrite(ps[1].key, ps[1].data) \o SectionsOf(Tail(ps))

\* the i-th Put hands over a block the writer passes over: an identity block it is
\* not to store, or a block of a multihash already written when duplicates are
\* not allowed
PassedOver(ps, i) ==
    \/ ~dcw.opts.StoreIdentityCIDs /\ isIdentity(ps[i].key)
    \/ /\ ~dcw.opts.BlockstoreAllowDuplicatePuts
       /\ \E j \in 1..(i - 1) : Hash(ps[j].key) = Hash(ps[i].key)

RECURSIVE Kept(_, _)
\* the Puts from the i-th on that are not passed over
Kept(ps, i) ==
    IF i > Len(ps) THEN <<>>
    ELSE (IF PassedOver(ps, i) THEN <<>> ELSE <<ps[i]>>) \o Kept(ps, i + 1)

\* before the first Put the output is as it was at construction and Has answers
\* false
UntouchedBeforePut ==
    /\ PutEvents = <<>> => sink = [exists |-> dcw.outStream, bytes |-> <<>>]
    /\ \A i \in 1..Len(log) :
           (log[i].ev = "Has" /\ \A j \in 1..i : log[j].ev # "Put") => ~log[i].res

CalledAt(id) == {log[i].put : i \in {j \in 1..Len(log) : log[j].ev = "cb" /\ log[j].id = id}}

\* the Puts made after the r-th event of the log
PutsAfter(r) == {log[i].put : i \in {j \in (r + 1)..Len(log) : log[j].ev = "Put"}}

\* a callback is called before the Put it is called for writes anything, with the
\* length of that Put's content, and once per Put
CalledBeforeWrite ==
    \A i \in 1..Len(log) :
        log[i].ev = "cb" =>
            \E p \in (i + 1)..Len(log) :
                /\ log[p].ev = "Put" /\ log[p].put = log[i].put
                /\ log[i].n = Len(log[p].data)
                /\ log[i].at = IF ~log[p].opened THEN log[p].from
                               ELSE IF dcw.outStream THEN 0 ELSE 0 - 1
                /\ \A j \in 1..Len(log) :
                       (log[j].ev = "cb" /\ log[j].id = log[i].id /\ log[j].put = log[i].put)
                           => j = i

\* C17: every callback is called with the content's length before its Put
\* writes; one registered with once is called for the first Put after its
\* registration and for no other, one registered without for every later Put
OnPutContract ==
    /\ CalledBeforeWrite
    /\ \A r \in Registered :
           CalledAt(log[r].id) =
               IF log[r].once
               THEN {k \in PutsAfter(r) : \A k2 \in PutsAfter(r) : k <= k2}
               ELSE PutsAfter(r)

\* a callback wanted once and one wanted always, registered in this order, have
\* seen two Puts, the first of which opened the output; a third was registered
\* between the Puts
OnPutWitness ==
    \E r1, r2, r3 \in Registered :
        /\ r1 < r2 /\ log[r1].once /\ ~log[r2].once
        /\ Cardinality(PutsAfter(r2)) = 2
        /\ Cardinality(PutsAfter(r3)) = 1
        /\ Cardinality(CalledAt(log[r1].id)) = 1
        /\ Cardinality(CalledAt(log[r2].id)) = 2


\* every callback whose OnPut has returned is still registered, unless it was
\* wanted once and has been called
NoRegistrationLost ==
    \A r \in Registered :
        \/ \E j \in 1..Len(dcw.putCb) : dcw.putCb[j].id = log[r].id
        \/ log[r].once /\ CalledAt(log[r].id) # {}

\* the writer was opened by at most one Put and the header is in the output once
OpenedOnce ==
    /\ Cardinality({i \in 1..Len(log) : log[i].ev = "Put" /\ log[i].opened}) <= 1
    /\ PutEvents # <<>> =>
           sink.bytes = LdWrite(headerBytes(dcw.roots, 1), <<>>)
                            \o SectionsOf(Kept(PutEvents, 1))

\* C16: calls from different goroutines act as if made one after another: no
\* registration of a callback is lost, the writer is opened at most once and the
\* header is written once
DeferredThreadSafe == NoRegistrationLost /\ OpenedOnce


\* the last call of Next or SkipNext began at a length prefix of 0
AtZeroLength ==
    /\ ret.op \in {"Next", "SkipNext"}
    /\ ret.at < Len(car)
    /\ car[ret.at + 1] = 0

\* C18: at a section of length 0 Next and SkipNext report EOF when
\* ZeroLengthSectionAsEOF is set, and otherwise an error that is not EOF; they
\* return no block
ZeroLengthSection ==
    AtZeroLength =>
        /\ ret.cid = Undef
        /\ IF br.opts.ZeroLengthSectionAsEOF THEN ret.err = "EOF"
           ELSE ret.err \notin {"nil", "EOF"}

\* SkipNext has met a zero-length section, without the option, after Next
\* returned a block
ZeroLengthSectionWitness ==
    /\ AtZeroLength
    /\ ret.op = "SkipNext"
    /\ ~br.opts.ZeroLengthSectionAsEOF
    /\ ret.err = "invalid cid"
    /\ got # <<>>

\* C19: once Next has returned EOF, the next Next returns EOF again and no
\* block
EofIsFinal ==
    [][(ret.op = "Next" /\ ret.err = "EOF" /\ ret'.op = "Next")
           => (ret'.err = "EOF" /\ got' = got)]_vars

\* the section at the reader's position is whole and its payload is the one of
\* its CID
GoodSectionAhead ==
    LET good(r) == r.err = "nil" /\ PrefixSum(r.cid, r.data) = r.cid
    IN  good(ReadSection(car, br.pos, br.opts.ZeroLengthSectionAsEOF,
                         br.opts.MaxAllowedSectionSize))

\* C20: after a hash mismatch of Next the next call of Next or SkipNext returns
\* the section that follows, SkipNext with the offset the section has in the
\* stream
MismatchNotFatal ==
    [][(/\ ret.op = "Next"
        /\ ret.err = "mismatch in content integrity"
        /\ GoodSectionAhead
        /\ br'.pos # br.pos)
           => /\ ret'.err = "nil"
              /\ ret'.op = "SkipNext" => ret'.meta.offset = br.pos]_vars


\* the section that begins where the last call began
SectionRead == ReadSection(Input, ret.at, FALSE, DefaultReaderOpts.MaxAllowedSectionSize)

\* C21: what SkipNext returns for a section of a well-formed CAR is the CID Next
\* returns for it, the length of its payload and the position of its first byte,
\* whatever calls of Next and SkipNext came before
SkipNextMetadata ==
    (ret.op = "SkipNext" /\ ret.err = "nil") =>
        /\ ret.meta.cid = SectionRead.cid
        /\ ret.meta.size = Len(SectionRead.data)
        /\ ret.meta.offset = ret.at


\* C22: a header a decoder has accepted or a chain of NewV2Header and modifiers
\* has built has its payload after the pragma and the header, a payload that is
\* not empty, and no index or an index after the payload
HeaderInvariants ==
    /\ hdr.DataOffset >= V2PragmaSize + V2HeaderSize
    /\ hdr.DataSize > 0
    /\ hdr.IndexOffset = 0 \/ hdr.IndexOffset >= hdr.DataOffset + hdr.DataSize

\* C23: NewV2Header puts the payload at 51 and the index behind it; a padding
\* modifier returns the header it is called on with the offset moved by the
\* padding (the index too when the payload moves) and leaves that header as it was
PaddingShifts ==
    /\ hcall.op = "NewV2Header" =>
           /\ hdr.DataOffset = 51
           /\ hdr.IndexOffset = 51 + hcall.p
    /\ hcall.op = "WithDataPadding" =>
           /\ hdr = [hcall.on EXCEPT !.DataOffset = @ + hcall.p, !.IndexOffset = @ + hcall.p]
           /\ hcall.after = hcall.on
    /\ hcall.op = "WithIndexPadding" =>
           /\ hdr = [hcall.on EXCEPT !.IndexOffset = @ + hcall.p]
           /\ hcall.after = hcall.on


\* C24: on a CAR whose header declares version 1 and has no roots key, every
\* header reader returns an error
DeclaresV1WithoutRoots == IsPrefix(LdWrite(RootlessHeader(1), <<>>), car)

RootlessV1Rejected ==
    (DeclaresV1WithoutRoots /\ ret.op \in {"ReadHeader", "NewCarReader", "NewBlockReader"})
        => ret.err # "nil"

\* C25: on a CAR whose header is {roots: [], version: 1} every reader opens
\* without error and reports no roots, and the sections after the header are
\* iterated up to the end of the CAR
DeclaresEmptyRoots == IsPrefix(LdWrite(headerBytes(<<>>, 1), <<>>), car)

EmptyRootsAccepted ==
    DeclaresEmptyRoots =>
        /\ ret.op \in {"NewCarReader", "NewBlockReader"} =>
               /\ ret.err = "nil"
               /\ br.roots = <<>>
        /\ ret.op \in {"Next", "SkipNext"} =>
               ret.err = IF ret.at = Len(car) THEN "EOF" ELSE "nil"


RECURSIVE SectionCids(_, _)
\* the CIDs of the sections of a well-formed payload from pos on, in file order
SectionCids(s, pos) ==
    LET l == ReadUvarint(s, pos)
    IN  IF l.err # "nil" THEN <<>>
        ELSE <<CidFromBytes(Drop(s, pos + l.n)).cid>> \o SectionCids(s, pos + l.n + l.x)

PayloadCids == SectionCids(backing, ReadHeader(backing).pos)

\* the keys sent on the channel so far, those received first
Delivered == ranged.keys \o keysCh.buf

\* C26: the keys delivered on the channel are the CIDs of the payload's
\* sections in file order, all of them unless the context was cancelled, and
\* the channel is closed once the goroutine has sent the last key or has seen
\* the cancellation
KeysInFileOrder ==
    /\ IsPrefix(Delivered, PayloadCids)
    /\ scanner.state = "returned" =>
           /\ ~ctxDone => Delivered = PayloadCids
           /\ keysCh.closed


\* how often the CID c is among the roots
Occurrences(roots, c) == Cardinality({i \in 1..Len(roots) : roots[i] = c})

\* the same root CIDs, each as often, in any order
SameRoots(a, b) ==
    /\ Len(a) = Len(b)
    /\ \A i \in 1..Len(a) : Occurrences(a, a[i]) = Occurrences(b, a[i])

\* C27: Matches is true exactly for headers of the same version with the same
\* roots in any order, and gives the same answer whichever header it is called on
MatchesSymmetric ==
    hcall.op = "Matches" =>
        /\ hcall.forward = (hdr.one.Version = hdr.other.Version
                                /\ SameRoots(hdr.one.Roots, hdr.other.Roots))
        /\ hcall.forward = hcall.backward


\* C28: a WriteV1 ends in ErrSizeMismatch exactly when the size the
\* traversalCar expects is not zero and is not the size of the whole payload,
\* however many bytes the call skips, and it returns the number of bytes it wrote
SizeMismatchIffWrongSize ==
    [][(call.pc = "walk" /\ call'.pc = "done" /\ call.tee /\ full'.set) =>
           /\ (call'.err = "ErrSizeMismatch")
                  = (tc.size # 0 /\ tc.size # Len(full'.bytes))
           /\ call'.ret = Len(w')]_vars


\* the Close of a writer on which no Put was made
ClosedUnused == {i \in 1..Len(log) : log[i].ev = "Close"} # {} /\ PutsMade = {}

\* C29: Close on a DeferredCarWriter on which no Put was made returns without
\* a panic, writes nothing and creates no file, and closes no file
CloseUnusedIsSafe ==
    ClosedUnused =>
        /\ \A i \in 1..Len(log) : log[i].ev = "Close" => log[i].err # "panic"
        /\ sink = [exists |-> dcw.outStream, bytes |-> <<>>]
        /\ dcw.f = Nil


\* Position() at the end of the complete first run
FirstRunEnd == IF full.loads = <<>> THEN 0 ELSE full.loads[Len(full.loads)].end

\* the end offset of the last block of the first run that lies before offset k
EndBefore(k) ==
    LET ends == {full.loads[j].end : j \in {j \in 1..Len(full.loads) : full.loads[j].end <= k}}
    IN  IF ends = {} THEN 0 ELSE CHOOSE e \in ends : \A f \in ends : f <= e

\* C30: in the re-run after a rewind the counter never exceeds the position T
\* the complete first run ended with, it is T again when the re-run is
\* complete, and when replay mode ends it is the end offset of the last block
\* before the rewind target
PositionRestored ==
    [][Rerun' =>
           /\ ts'.lsCounter <= FirstRunEnd'
           /\ call'.pc = "done" => ts'.lsCounter = FirstRunEnd'
           /\ (Rerun /\ ts.rewindOffsetTarget # 0 /\ ts'.rewindOffsetTarget = 0) =>
                  ts.lsCounter = EndBefore(call.skip)]_vars


====
